---- MODULE Spec2Model ----
(***************************************************************************)
(* The process-network execution engine of opgee.field.Field: graph        *)
(* assembly (_connect_processes), cycle analysis (_after_init,             *)
(* _depends_on_cycle, _compute_graph_sections), the run_after check        *)
(* (_check_run_after_procs, validate) and the partitioned scheduler with   *)
(* its convergence loop (run_processes).                                   *)
(*                                                                         *)
(* Processes are numbered in declaration order (the order of               *)
(* Field.process_dict).  A stream is the pair <<src, dst>> of the          *)
(* processes it connects; stream_dict lists the streams in the order the   *)
(* field declares them.  A Python set of processes iterates in the hash    *)
(* order of the objects: any order (SetOrders), the same whenever the set  *)
(* is built again from the same objects in a later run of the field.       *)
(* The built-in Reservoir of Field.__init__ has no declared stream in the  *)
(* fields explored; it is a node of the graph and a member of              *)
(* cycle_independent, and is followed only where it counts: in the size of *)
(* the graph and of the independent section that graph.subgraph compares.  *)
(*                                                                         *)
(* Process.predecessors, Process.successors, Process.run_if_enabled,       *)
(* Process.beyond_boundary, the visited marker and the reset of the        *)
(* per-run flags live in opgee/process.py, the aggregators in              *)
(* opgee/container.py; they follow the specification's node contract,      *)
(* which gives successors() no order: a process yields its successors in   *)
(* any order, the same in every run of the field.                          *)
(* Field.__init__ is modelled by its boundary registration, Field.validate *)
(* whole, Field.run by the test of the field's enabled flag, the lookup of *)
(* the analysis boundary and the calls of reset, _impute, reset_iteration  *)
(* and run_processes, each a step of its own (the reporting after          *)
(* run_processes is left out).  What Process.reset and                     *)
(* Process.reset_iteration clear is the specification's: the per-run       *)
(* transient state of the process.  The last part is the Ray address file  *)
(* of built_ins/ray_plugin.py.                                             *)
(*                                                                         *)
(* Spec explores the scheduler on fields whose last process declares the   *)
(* boundary of the analysis, without aggregators and exogenous data;       *)
(* SpecStart fields with any number of cycle_start                         *)
(* processes; SpecConstruct and SpecValidate fields with boundary tags and *)
(* aggregators; SpecImpute fields with exogenous data and impute flags,    *)
(* SpecWalk those among them on which the imputation walk meets no loop;   *)
(* SpecBuild fields with disabled streams and unknown process names, built *)
(* once or twice; SpecRetry a run after a run that gave up at the ceiling; *)
(* SpecSections the sections of fields of four processes; SpecReset the    *)
(* run of fields with disabled streams; SpecOrder two runs of fields with  *)
(* impute_start processes; SpecAnalysis the run with an analysis;          *)
(* SpecChoices fields with process choices; SpecRay the commands that      *)
(* write, read and rename the Ray address file.                            *)
(***************************************************************************)
EXTENDS Integers, Sequences, FiniteSets, TLC

\* ---------------------------------------------------------------- bounds
MaxStreams == 4
MaxRepeatStreams == 3
MaxCeiling == 2
MaxConvAt == 2
MaxStartStreams == 3
MaxValidateStreams == 2
MaxImputeStreams == 2
MaxWalkStreams == 3
MaxBuildStreams == 2
MaxRetryStreams == 2
MaxSectionStreams == 4
MaxOrderStreams == 2
MaxAnalysisStreams == 1
MaxMembers == 2
MaxStarts == 2

\* The names of the processes of the fields explored, in declaration order;
\* NoProc is None where a process is expected.
ProcNames == {1, 2, 3}
NoProc == 0
StreamUniverse == ProcNames \X ProcNames

\* Boundary names: the names of OPGEE.Boundaries and one that is not among
\* them; NoTag is a process that declares no boundary.
NoTag == 0
KnownBoundaries == {1, 2}
Tags == KnownBoundaries \cup {3}

\* The aggregators of the field; NoAgg is the top level of the field.
NoAgg == 0
Aggs == {1}

VARIABLES
    procEnabled,    \* Process.enabled, per process
    run_after,      \* Process.run_after, per process
    cycle_start,    \* Process.cycle_start, per process
    stream_dict,    \* Field.stream_dict: the declared streams, in declaration order
    streamEnabled,  \* the declared streams whose enabled flag is set
    inputs,         \* Process.inputs: list of streams, per process
    outputs,        \* Process.outputs: list of streams, per process
    graph,          \* Field.graph: [nodes, edges]
    cycles,         \* Field.cycles: the simple cycles of the graph
    in_cycle,       \* Process.in_cycle, per process
    convProc,       \* the process whose run() raises OpgeeIterationConverged
    convAt,         \* ... on its convAt-th invocation after a reset
    invocations,    \* number of run() calls per process since the last reset
    pc,             \* position of the caller: new, built, valid, ready, ...
    err,            \* the exception that ended the build, validation or run
    sections,       \* result of _compute_graph_sections
    start_procs,    \* run_processes: start_procs
    max_iter,       \* run_processes: max_iter
    ordered_cycle,  \* run_processes: ordered_cycle
    iter_count,     \* run_processes: iter_count
    reported,       \* the ceiling named in the OpgeeMaxIterationsReached message
    trace,          \* the run() invocations of the current Field.run, in order
    runs,           \* number of Field.run calls started on the network
    prev_trace,     \* trace of the previous Field.run
    prev_iter,      \* iter_count of the previous Field.run
    prev_seeded,    \* the processes imputed by the previous Field.run, in order
    boundary,       \* Process.boundary, per process (NoTag: none)
    agg,            \* the aggregator a process is declared in (NoAgg: top level)
    steam_flooding, \* Field attribute steam_flooding
    SOR,            \* Field attribute SOR
    has_exogenous_data, \* the streams whose has_exogenous_data is set
    impute,         \* the streams whose impute flag is set
    impute_start,   \* Process.impute_start, per process
    fieldEnabled,   \* Field.enabled
    analysis_boundary, \* Analysis.boundary of the analysis the field is run with
    process_choice_dict, \* Field.process_choice_dict: the choices, in dict order
    attr_dict,      \* Field.attr_dict, the attributes named as a process choice
    files,          \* the directory of the Ray address file: path -> file, or NoFile
    contents,       \* what each file holds
    startCmd,       \* each 'opg ray start' command: its position and its open file
    stop,           \* the 'opg ray stop' command: its position, its open file, the address it read
    observed,       \* another program reading the address file: its open file, what it last saw
    boundary_dict,  \* Field.boundary_dict: boundary name -> process
    msgs,           \* validate: the messages accumulated
    seeded,         \* the processes whose impute() was called in this run, in order
    named           \* the processes named in the message of the _impute error

vars == <<procEnabled, run_after, cycle_start, stream_dict, streamEnabled, inputs,
          outputs, graph, cycles, in_cycle, convProc, convAt, invocations, pc, err,
          sections, start_procs, max_iter, ordered_cycle,
          iter_count, reported, trace, runs, prev_trace, prev_iter, prev_seeded,
          boundary, agg, steam_flooding, SOR, has_exogenous_data, impute,
          impute_start, fieldEnabled, analysis_boundary, process_choice_dict,
          attr_dict, files, contents, startCmd, stop, observed, boundary_dict,
          msgs, seeded, named>>

\* What the field declares besides its processes and streams.
choiceVars == <<process_choice_dict, attr_dict>>
declVars == <<boundary, agg, steam_flooding, SOR, has_exogenous_data, impute,
              impute_start, fieldEnabled, analysis_boundary, choiceVars>>
rayVars == <<files, contents, startCmd, stop, observed>>
staticVars == <<run_after, cycle_start, stream_dict, declVars, rayVars>>
netVars == <<procEnabled, staticVars>>
imputeVars == <<seeded, named>>
wireVars == <<inputs, outputs, graph, cycles>>
loopVars == <<start_procs, max_iter, ordered_cycle, iter_count, reported>>
prevVars == <<runs, prev_trace, prev_iter, prev_seeded>>

\* ------------------------------------------------------- sequence helpers
Range(s) == {s[i] : i \in DOMAIN s}

Min(S) == CHOOSE x \in S : \A y \in S : x <= y

\* The processes of S in declaration order, as the dicts and lists of the
\* field hold them.
RECURSIVE ProcList(_)
ProcList(S) ==
    IF S = {} THEN <<>>
    ELSE LET m == Min(S) IN <<m>> \o ProcList(S \ {m})

\* The streams the field declares.
DeclaredStreams == Range(stream_dict)

\* The streams of S as stream_dict.values() yields them: in the order the
\* field declares them.
StreamList(S) == SelectSeq(stream_dict, LAMBDA s : s \in S)

\* ------------------------------------------------------------- the field
\* Field.process_dict: the processes the field declares.
Procs == DOMAIN procEnabled

\* Field.processes(): the enabled processes.
Processes == {p \in Procs : procEnabled[p]}

\* Field.streams(): the enabled streams.
Streams == streamEnabled

\* Process.predecessors() / successors(): the sources of the wired input
\* streams, the destinations of the wired output streams.
Predecessors(p) == {inputs[p][i][1] : i \in DOMAIN inputs[p]}
Successors(p) == {outputs[p][i][2] : i \in DOMAIN outputs[p]}

\* Only the enabled successors are looked at.
BadRunAfterProcsEnabledOnly ==
    {p \in Processes :
        run_after[p] /\ \E d \in Successors(p) : procEnabled[d] /\ ~run_after[d]}

\* Field._check_run_after_procs: the enabled run_after processes with an
\* output stream to a process that is not run_after.
BadRunAfterProcs ==
    {p \in Processes : run_after[p] /\ \E d \in Successors(p) : ~run_after[d]}

\* Field.find_process fails: the stream names, as its source or as its
\* destination, a process that is not in process_dict.
Unresolved(s) == s[1] \notin Procs \/ s[2] \notin Procs

\* The streams the loop of _connect_processes wires: the enabled streams in
\* declaration order, up to the first one find_process raises on.
RECURSIVE Resolved(_)
Resolved(streams) ==
    IF streams = <<>> \/ Unresolved(Head(streams)) THEN <<>>
    ELSE <<Head(streams)>> \o Resolved(Tail(streams))

WiredStreams == Resolved(StreamList(Streams))

\* Field._connect_processes: the lists of an enabled process are cleared, then
\* every enabled stream is appended to the outputs of its source and to the
\* inputs of its destination.
ConnectedInputs(p) ==
    (IF procEnabled[p] THEN <<>> ELSE inputs[p])
        \o SelectSeq(WiredStreams, LAMBDA s : s[2] = p)

ConnectedOutputs(p) ==
    (IF procEnabled[p] THEN <<>> ELSE outputs[p])
        \o SelectSeq(WiredStreams, LAMBDA s : s[1] = p)

\* The graph _connect_processes returns: the enabled processes and the end
\* points of the enabled streams as nodes, one edge per enabled stream.
ConnectedGraph ==
    [nodes |-> Processes \cup {s[1] : s \in Streams} \cup {s[2] : s \in Streams},
     edges |-> Streams]

\* nx.simple_cycles: each simple cycle as the list of its nodes, written from
\* its smallest node (self-loops are cycles of length 1).
IsSimpleCycle(g, c) ==
    /\ \A i, j \in DOMAIN c : i # j => c[i] # c[j]
    /\ \A i \in 1..(Len(c) - 1) : <<c[i], c[i + 1]>> \in g.edges
    /\ <<c[Len(c)], c[1]>> \in g.edges
    /\ c[1] = Min(Range(c))

SimpleCycles(g) ==
    {c \in UNION {[1..k -> g.nodes] : k \in 1..Cardinality(g.nodes)} : IsSimpleCycle(g, c)}

\* Field._is_cycle_member
IsCycleMember(p) == \E c \in cycles : p \in Range(c)

\* Field._depends_on_cycle: walk backwards over the predecessors with one set
\* `visited` shared by the whole recursion; meeting a process that is already
\* in it answers True.  DependsWalk is the for loop over the predecessors
\* still to look at; it returns the answer and the set as the loop left it.
RECURSIVE DependsWalk(_, _)
DependsWalk(todo, visited) ==
    IF todo = <<>> THEN [found |-> FALSE, visited |-> visited]
    ELSE LET q == Head(todo) IN
         IF q \in visited THEN [found |-> TRUE, visited |-> visited]
         ELSE LET r == DependsWalk(ProcList(Predecessors(q)), visited \cup {q})
              IN IF r.found THEN r ELSE DependsWalk(Tail(todo), r.visited)

\* Only the predecessors themselves are asked whether they are on a cycle.
DependsOnCycleDirect(p) == \E q \in Predecessors(p) : IsCycleMember(q)

DependsOnCycle(p) == DependsWalk(ProcList(Predecessors(p)), {}).found

\* Every member of a detected cycle, enabled or not.
ProcsInCyclesAll == UNION {Range(c) : c \in cycles}

\* Field._compute_graph_sections
ProcsInCycles == {p \in UNION {Range(c) : c \in cycles} : procEnabled[p]}

CycleDependent ==
    IF ProcsInCycles = {} THEN {}
    ELSE {p \in Processes : p \notin ProcsInCycles /\ DependsOnCycle(p)}

RunAfters == {p \in Processes : run_after[p]}

ComputeGraphSections ==
    [independent |-> ((Processes \ ProcsInCycles) \ CycleDependent) \ RunAfters,
     in_cycle    |-> ProcsInCycles,
     dependent   |-> CycleDependent,
     run_afters  |-> RunAfters]

NoSections == [independent |-> {}, in_cycle |-> {}, dependent |-> {}, run_afters |-> {}]

\* graph.subgraph(S) and nx.topological_sort (Kahn's algorithm by generations).
\* The view of a subgraph iterates the nodes in the order of the graph, the
\* order in which _connect_processes added them, unless the set handed to
\* subgraph has fewer than half as many members as the graph has nodes: then
\* it iterates that set, in the hash order of the processes.  The graph has
\* a node for every enabled process and one for the Reservoir.
\* The first generation holds the nodes of S without an incoming edge from S,
\* in the order the view iterates them;
\* a node joins the next generation when the last of its parents in S has been
\* handed out, in the order in which that happens: the children of a node are
\* looked at in the order its edges were added, the order of its outputs.
ParentsIn(S, p) == {q \in S : <<q, p>> \in graph.edges}

Released(S, before, gen, i) ==
    LET handed == before \cup {gen[j] : j \in 1..i}
        children == [k \in DOMAIN outputs[gen[i]] |-> outputs[gen[i]][k][2]]
    IN SelectSeq(children,
                 LAMBDA c : /\ c \in S \ (before \cup Range(gen))
                            /\ gen[i] \in ParentsIn(S, c)
                            /\ ParentsIn(S, c) \subseteq handed)

RECURSIVE NextGeneration(_, _, _, _)
NextGeneration(S, before, gen, i) ==
    IF i > Len(gen) THEN <<>>
    ELSE Released(S, before, gen, i) \o NextGeneration(S, before, gen, i + 1)

RECURSIVE Generations(_, _, _)
Generations(S, before, gen) ==
    IF gen = <<>> THEN <<>>
    ELSE gen \o Generations(S, before \cup Range(gen), NextGeneration(S, before, gen, 1))

\* The orders in which a Python set of processes can iterate: the hash order
\* of the objects, any order as far as the program is concerned.
RECURSIVE SetOrders(_)
SetOrders(S) ==
    IF S = {} THEN {<<>>}
    ELSE UNION {{<<p>> \o o : o \in SetOrders(S \ {p})} : p \in S}

\* The orders in which the nodes of graph.subgraph(S) can iterate, where the
\* set handed to subgraph has `size` members.
SubgraphNodes(S, size) ==
    IF 2 * size < Cardinality(graph.nodes) + 1 THEN SetOrders(S) ELSE {ProcList(S)}

\* The processes of S as the subgraph iterates them, not sorted.
TopologicalSortUnsorted(S, nodes) == nodes

\* nx.topological_sort of graph.subgraph(S), whose nodes iterate as `nodes`.
TopologicalSort(S, nodes) ==
    Generations(S, {}, SelectSeq(nodes, LAMBDA p : ParentsIn(S, p) = {}))

\* run_processes: start_procs, where procs_in_cycles iterates as `order`.
StartProcs(order) == SelectSeq(order, LAMBDA p : cycle_start[p])

\* run_processes.process_successors: depth-first over successors(), taking a
\* process the first time it is met while it is still in `unvisited`.  The
\* walk asks a process for its successors once, and gets them in any order;
\* the results are the states [ordered, unvisited] the walk can end in.
RECURSIVE ProcessSuccessors(_, _)
RECURSIVE WalkSuccessors(_, _)
ProcessSuccessors(p, st) ==
    IF p \notin st.unvisited THEN {st}
    ELSE UNION {WalkSuccessors(o, [ordered |-> Append(st.ordered, p),
                                   unvisited |-> st.unvisited \ {p}]) :
                   o \in SetOrders(Successors(p))}

WalkSuccessors(todo, st) ==
    IF todo = <<>> THEN {st}
    ELSE UNION {WalkSuccessors(Tail(todo), x) : x \in ProcessSuccessors(Head(todo), st)}

\* procs_in_cycles as it iterates, with or without a start process.
OrderedCycleUnordered(starts, order) == {order}

\* run_processes: the lists ordered_cycle can be, where procs_in_cycles
\* iterates as `order`.  With a start process: the walk from it, then the
\* walk from every process it left unvisited, as list(unvisited) yields
\* them; without one: procs_in_cycles as it iterates.
OrderedCycle(starts, order) ==
    IF starts # <<>>
    THEN UNION {{x.ordered :
                    x \in WalkSuccessors(SelectSeq(order, LAMBDA p : p \in st.unvisited),
                                         st)} :
                   st \in ProcessSuccessors(starts[1], [ordered |-> <<>>,
                                                        unvisited |-> Range(order)])}
    ELSE {order}

\* What the start of the cycles can compute in this run: start_procs and,
\* where a loop follows, ordered_cycle, for every order in which
\* procs_in_cycles can iterate.  The sets are built from the same objects in
\* the same way in every run of a field, so a later run computes what the
\* run before computed, wherever that run shows it.
CycleOrders ==
    LET all == UNION {{[start_procs |-> StartProcs(o), ordered_cycle |-> c] :
                          c \in IF Len(StartProcs(o)) > 1 \/ o = <<>>
                                THEN {ordered_cycle}
                                ELSE OrderedCycle(StartProcs(o), o)} :
                         o \in SetOrders(sections.in_cycle)}
        same == {x \in all : x.start_procs = start_procs
                             /\ x.ordered_cycle = ordered_cycle}
    IN IF runs = 1 \/ same = {} THEN all ELSE same

\* iter_count kept from the previous run.
InitialIterCountStale == iter_count

\* run_processes: iter_count before the first iteration of the while loop.
InitialIterCount == 0

\* The ceiling tested with >= in place of >.
CeilingExceededEarly(count, ceiling) == count >= ceiling

\* run_processes: the test that ends the loop at the top of an iteration.
CeilingExceeded(count, ceiling) == count > ceiling

\* Past the ceiling the loop is left with break.
LoopTargetBreak(exceeded, converged) ==
    IF exceeded \/ converged THEN "dependent" ELSE "loop"

\* run_processes: where the while loop leaves control.  Past the ceiling
\* OpgeeMaxIterationsReached leaves run_processes; OpgeeIterationConverged
\* breaks to run_procs_in_order(cycle_dependent); otherwise iterate again.
LoopTarget(exceeded, converged) ==
    IF exceeded THEN "failed" ELSE IF converged THEN "dependent" ELSE "loop"

\* Process.run_if_enabled: run() is called only on an enabled process.
RunsIfEnabled(p) == procEnabled[p]

\* The run() of process p raises OpgeeIterationConverged when this is its
\* convAt-th invocation since the last reset.
Converges(p, n) == p = convProc /\ n = convAt

Invocation(p, phase, pass) == [proc |-> p, phase |-> phase, pass |-> pass]

\* ------------------------------------------------------------ the actions
\* The field as Field.__init__ finds it: processes and streams declared,
\* nothing registered, nothing wired, no graph.
Unbuilt ==
    /\ boundary_dict = [b \in KnownBoundaries |-> NoProc]
    /\ msgs = <<>>
    /\ seeded = <<>>
    /\ named = {}
    /\ inputs = [p \in Procs |-> <<>>]
    /\ outputs = [p \in Procs |-> <<>>]
    /\ graph = [nodes |-> {}, edges |-> {}]
    /\ cycles = {}
    /\ in_cycle = [p \in Procs |-> FALSE]
    /\ convProc = NoProc
    /\ convAt = 0
    /\ invocations = [p \in Procs |-> 0]
    /\ pc = "declared"
    /\ err = "none"
    /\ sections = NoSections
    /\ start_procs = <<>>
    /\ max_iter = 0
    /\ ordered_cycle = <<>>
    /\ iter_count = 0
    /\ reported = 0
    /\ trace = <<>>
    /\ runs = 0
    /\ prev_trace = <<>>
    /\ prev_iter = 0
    /\ prev_seeded = <<>>

\* A field all of whose declared streams are enabled.
Declared ==
    /\ streamEnabled = DeclaredStreams
    /\ Unbuilt

\* The streams of S declared source by source, and destination by
\* destination for one source.
RECURSIVE Ascending(_)
Ascending(S) ==
    IF S = {} THEN <<>>
    ELSE LET m == CHOOSE s \in S : \A t \in S :
                      s[1] < t[1] \/ (s[1] = t[1] /\ s[2] <= t[2])
         IN <<m>> \o Ascending(S \ {m})

\* Fields of up to n streams between the names of U, declared source by
\* source: the fields on which the scheduler is explored.
StreamDictsOver(U, n) == {Ascending(S) : S \in {T \in SUBSET (U \X U) : Cardinality(T) <= n}}

StreamDicts(n) == StreamDictsOver(ProcNames, n)

\* Fields of up to n streams between the names of U, declared in any order:
\* the fields on which the wiring and the reset of the streams are explored.
RECURSIVE StreamDictsAnyOrder(_, _)
StreamDictsAnyOrder(U, n) ==
    IF n = 0 THEN {<<>>}
    ELSE LET shorter == StreamDictsAnyOrder(U, n - 1)
         IN shorter \cup UNION {{Append(q, s) : s \in (U \X U) \ Range(q)} : q \in shorter}

\* At most one process of the field is disabled.
OneDisabled == {[p \in ProcNames |-> p # d] : d \in ProcNames \cup {NoProc}}

\* At most one process of the field carries the flag.
OneFlagged == {[p \in ProcNames |-> p = s] : s \in ProcNames \cup {NoProc}}

\* No address file, no temporary file, no Ray command started, nothing read.
NoFile == 0
Starters == 1..MaxStarts
Paths == {"addr_file", "tmp_file", "stopped"}

NoCluster ==
    /\ files = [f \in Paths |-> NoFile]
    /\ contents = [i \in Starters |-> <<>>]
    /\ startCmd = [i \in Starters |-> [pc |-> "idle", f |-> NoFile]]
    /\ stop = [pc |-> "idle", f |-> NoFile, address |-> <<>>]
    /\ observed = [pc |-> "closed", f |-> NoFile, exists |-> FALSE, text |-> <<>>,
                   renamed |-> FALSE]

\* A field without process choices.
NoChoices ==
    /\ process_choice_dict = <<>>
    /\ attr_dict = <<>>
    /\ NoCluster

\* An enabled field without process choices; no analysis is named, the field
\* is not run.
NoAnalysis ==
    /\ fieldEnabled = TRUE
    /\ analysis_boundary = NoTag
    /\ NoChoices

\* No boundary, no aggregator, steam_flooding off.
NoBoundaries ==
    /\ NoAnalysis
    /\ boundary = [p \in Procs |-> NoTag]
    /\ agg = [p \in Procs |-> NoAgg]
    /\ steam_flooding = FALSE
    /\ SOR = 0

\* The first boundary of OPGEE.Boundaries, the one the analysis names.
Production == 1

\* An enabled field without process choices, aggregators or steam flooding,
\* run with an analysis whose boundary the last of its processes declares.
ProductionBoundary ==
    /\ fieldEnabled = TRUE
    /\ analysis_boundary = Production
    /\ NoChoices
    /\ boundary = [p \in Procs |-> IF \A q \in Procs : q <= p THEN Production ELSE NoTag]
    /\ agg = [p \in Procs |-> NoAgg]
    /\ steam_flooding = FALSE
    /\ SOR = 0

\* No exogenous data, no process tagged impute_start; every stream imputes.
NoExogenousData ==
    /\ has_exogenous_data = {}
    /\ impute = DeclaredStreams
    /\ impute_start = [p \in Procs |-> FALSE]

\* The fields the scheduler is explored on: up to MaxStreams streams, at most
\* one disabled process and at most one process tagged cycle_start.
Init ==
    /\ stream_dict \in StreamDicts(MaxStreams)
    /\ procEnabled \in OneDisabled
    /\ run_after \in [ProcNames -> BOOLEAN]
    /\ cycle_start \in OneFlagged
    /\ ProductionBoundary
    /\ NoExogenousData
    /\ Declared

runVars == <<in_cycle, invocations, sections, trace>>

\* The processes declared at the top level of the field, in declaration
\* order: the `procs` handed to Field.__init__.
TopLevelProcs == ProcList({p \in Procs : agg[p] = NoAgg})

\* Field.__init__: the loop that fills boundary_dict from `procs`; it raises
\* on a name outside OPGEE.Boundaries and on a name that is already in the
\* dictionary.
RECURSIVE RegisterBoundaries(_, _)
RegisterBoundaries(procs, dict) ==
    IF procs = <<>> THEN [err |-> "none", dict |-> dict]
    ELSE LET p == Head(procs)
             b == boundary[p]
         IN IF b = NoTag THEN RegisterBoundaries(Tail(procs), dict)
            ELSE IF b \notin KnownBoundaries
                 THEN [err |-> "unknown_boundary", dict |-> dict]
                 ELSE IF dict[b] # NoProc
                      THEN [err |-> "duplicate_boundary", dict |-> dict]
                      ELSE RegisterBoundaries(Tail(procs), [dict EXCEPT ![b] = p])

\* Field.__init__
Construct ==
    /\ pc = "declared"
    /\ LET r == RegisterBoundaries(TopLevelProcs, boundary_dict)
       IN /\ boundary_dict' = r.dict
          /\ err' = r.err
          /\ pc' = IF r.err = "none" THEN "new" ELSE "error"
    /\ UNCHANGED <<netVars, streamEnabled, wireVars, convProc, convAt, runVars,
                   loopVars, prevVars, msgs, imputeVars>>

\* self.graph = self._connect_processes() and self.cycles =
\* list(nx.simple_cycles(g)).  The OpgeeException of find_process leaves
\* _connect_processes with the streams before the failing one wired, and the
\* graph and the cycles of the field as they were.
ConnectProcesses(next) ==
    /\ inputs' = [p \in Procs |-> ConnectedInputs(p)]
    /\ outputs' = [p \in Procs |-> ConnectedOutputs(p)]
    /\ IF \E s \in Streams : Unresolved(s)
       THEN /\ pc' = "error"
            /\ err' = "lookup"
            /\ UNCHANGED <<graph, cycles>>
       ELSE /\ graph' = ConnectedGraph
            /\ cycles' = SimpleCycles(ConnectedGraph)
            /\ pc' = next
            /\ UNCHANGED err

\* Field._after_init from _check_run_after_procs on: the run_after check on
\* the wiring as it stands, then _connect_processes and nx.simple_cycles.
CheckAndConnect ==
    /\ IF BadRunAfterProcs # {}
       THEN /\ pc' = "error"
            /\ err' = "run_after"
            /\ UNCHANGED wireVars
       ELSE ConnectProcesses("built")
    /\ UNCHANGED <<netVars, streamEnabled, convProc, convAt, runVars, loopVars, prevVars,
                   boundary_dict, msgs, imputeVars>>

\* Field._after_init of a field without process choices, where
\* resolve_process_choices has nothing to loop over.
AfterInit ==
    /\ pc = "new"
    /\ process_choice_dict = <<>>
    /\ CheckAndConnect

\* str.lower on the value of a choice attribute.
Lower(v) == IF v = "A" THEN "a" ELSE IF v = "B" THEN "b" ELSE v

\* attr_dict.get(choice_name) and attr.value; NoAttr where get returns None.
NoAttr == ""
Attr(choice_name) ==
    IF choice_name \in DOMAIN attr_dict THEN attr_dict[choice_name] ELSE NoAttr

NoObjects == [procs |-> {}, streams |-> {}]

\* obj.set_enabled(False) for the processes and streams of a group.
DisableGroup(st, group) ==
    [st EXCEPT !.procs = @ \ group.procs, !.streams = @ \ group.streams]

\* obj.set_enabled(True) for the objects of to_enable.
EnableChosen(st, to_enable) ==
    [st EXCEPT !.procs = @ \cup to_enable.procs, !.streams = @ \cup to_enable.streams]

\* A resolution that enables the objects of a selected group where it meets
\* the group and disables the objects of the groups met later.
RECURSIVE ResolveChoicesEager(_, _, _)
ResolveChoicesEager(choices, st, to_enable) ==
    IF choices = <<>> THEN st
    ELSE IF Attr(Head(choices).name) = NoAttr THEN [st EXCEPT !.err = "attribute"]
    ELSE LET selected == Lower(Attr(Head(choices).name))
             groups == Head(choices).groups_dict
             Met(i, t) == IF groups[i].name = selected
                          THEN EnableChosen(ResolveChoicesEager(
                                   groups[i].process_choice_dict, t, NoObjects), groups[i])
                          ELSE DisableGroup(t, groups[i])
             Loop[i \in 0..Len(groups)] == IF i = 0 THEN st ELSE Met(i, Loop[i - 1])
         IN ResolveChoicesEager(Tail(choices), Loop[Len(groups)], to_enable)

\* Field.resolve_process_choices: the loop over the choices of a dict and the
\* loop over the groups of each choice.  st holds the enabled processes and
\* streams and the error raised so far, to_enable the objects of the selected
\* groups met in this call; the nested choices of a selected group are
\* resolved, by a call of their own, before the objects of the group are
\* disabled.
RECURSIVE ResolveChoices(_, _, _), ResolveGroups(_, _, _, _)
ResolveChoices(choices, st, to_enable) ==
    IF choices = <<>> THEN EnableChosen(st, to_enable)
    ELSE IF Attr(Head(choices).name) = NoAttr THEN [st EXCEPT !.err = "attribute"]
    ELSE LET r == ResolveGroups(Head(choices).groups_dict,
                                Lower(Attr(Head(choices).name)), st, to_enable)
         IN IF r.st.err # "none" THEN r.st
            ELSE ResolveChoices(Tail(choices), r.st, r.to_enable)

ResolveGroups(groups, selected_group_name, st, to_enable) ==
    IF groups = <<>> THEN [st |-> st, to_enable |-> to_enable]
    ELSE LET group == Head(groups)
             chosen == group.name = selected_group_name
             more == IF chosen
                     THEN [procs |-> to_enable.procs \cup group.procs,
                           streams |-> to_enable.streams \cup group.streams]
                     ELSE to_enable
             nested == IF chosen
                       THEN ResolveChoices(group.process_choice_dict, st, NoObjects)
                       ELSE st
         IN IF nested.err # "none" THEN [st |-> nested, to_enable |-> more]
            ELSE ResolveGroups(Tail(groups), selected_group_name,
                               DisableGroup(nested, group), more)

\* The enabled flags resolve_process_choices() leaves, and its exception.
ResolvedChoices ==
    ResolveChoices(process_choice_dict,
                   [procs |-> {p \in Procs : procEnabled[p]},
                    streams |-> streamEnabled, err |-> "none"],
                   NoObjects)

\* Field._after_init of a field with process choices, up to the return of
\* resolve_process_choices.
ResolveProcessChoices ==
    /\ pc = "new"
    /\ process_choice_dict # <<>>
    /\ procEnabled' = [p \in Procs |-> p \in ResolvedChoices.procs]
    /\ streamEnabled' = ResolvedChoices.streams
    /\ err' = ResolvedChoices.err
    /\ pc' = IF ResolvedChoices.err = "none" THEN "resolved" ELSE "error"
    /\ UNCHANGED <<staticVars, wireVars, convProc, convAt, runVars, loopVars, prevVars,
                   boundary_dict, msgs, imputeVars>>

\* Field._after_init of a field with process choices, from the return of
\* resolve_process_choices on.
AfterChoices ==
    /\ pc = "resolved"
    /\ CheckAndConnect

\* The graph of a built field is built once more, from the same declarations.
Rebuild ==
    /\ pc = "built"
    /\ ConnectProcesses("rebuilt")
    /\ UNCHANGED <<netVars, streamEnabled, convProc, convAt, runVars, loopVars, prevVars,
                   boundary_dict, msgs, imputeVars>>

\* The processes reached from S over wired output streams, S included.
RECURSIVE DownstreamOf(_)
DownstreamOf(S) ==
    LET T == S \cup UNION {Successors(p) : p \in S}
    IN IF T = S THEN S ELSE DownstreamOf(T)

\* The processes from which S is reached over wired input streams, S included.
RECURSIVE UpstreamOf(_)
UpstreamOf(S) ==
    LET T == S \cup UNION {Predecessors(p) : p \in S}
    IN IF T = S THEN S ELSE UpstreamOf(T)

\* Process.beyond_boundary: the processes downstream of boundary process b,
\* exclusive of b and of the processes that feed it.
Beyond(b) == DownstreamOf(Successors(b)) \ ({b} \cup UpstreamOf(Predecessors(b)))

\* Field.boundary_processes: the enabled processes that declare a boundary.
BoundaryProcesses == ProcList({p \in Processes : boundary[p] # NoTag})

\* Container.descendant_aggs / Aggregator.descendant_procs
DescendantAggs == ProcList(Aggs)
DescendantProcs(a) == ProcList({p \in Procs : agg[p] = a})

\* One message of validate: what it is about and the names it prints.
Msg(kind, proc, a, tag) == [kind |-> kind, proc |-> proc, agg |-> a, tag |-> tag]

\* validate: the message of the run_after check, if it raises.
RunAfterMsgs ==
    IF BadRunAfterProcs # {} THEN <<Msg("run_after", NoProc, NoAgg, NoTag)>> ELSE <<>>

\* validate: "<boundary> boundary <proc> is in one or more cycles.", appended
\* once when some cycle holds the boundary process.
CycleMsgs(b) ==
    IF \E c \in cycles : b \in Range(c)
    THEN <<Msg("cycle", b, NoAgg, boundary[b])>>
    ELSE <<>>

\* validate: the loop over the members of aggregator a.  Every member that is
\* not on the side of the first member appends "<agg> spans the <boundary>
\* boundary."; the boundary printed is that of `proc`, which the loop over
\* the members has rebound to the member.
SpanMsgs(a, beyond) ==
    LET procs == DescendantProcs(a)
        odd == SelectSeq(procs, LAMBDA m : (m \in beyond) # (procs[1] \in beyond))
    IN [i \in 1..Len(odd) |-> Msg("spans", odd[i], a, boundary[odd[i]])]

RECURSIVE AggMsgs(_, _)
AggMsgs(aggs, beyond) ==
    IF aggs = <<>> THEN <<>>
    ELSE SpanMsgs(Head(aggs), beyond) \o AggMsgs(Tail(aggs), beyond)

\* The cycle and aggregator checks made whether or not there is a process
\* beyond the boundary.
BoundaryMsgsUnguarded(b) == CycleMsgs(b) \o AggMsgs(DescendantAggs, Beyond(b))

\* validate: one iteration of the loop over the boundary processes; nothing
\* is checked when no process is beyond the boundary.
BoundaryMsgs(b) ==
    IF Beyond(b) = {} THEN <<>>
    ELSE CycleMsgs(b) \o AggMsgs(DescendantAggs, Beyond(b))

RECURSIVE AllBoundaryMsgs(_)
AllBoundaryMsgs(procs) ==
    IF procs = <<>> THEN <<>>
    ELSE BoundaryMsgs(Head(procs)) \o AllBoundaryMsgs(Tail(procs))

\* validate: the attribute constraint.
AttrMsgs ==
    IF steam_flooding /\ SOR = 0 THEN <<Msg("SOR", NoProc, NoAgg, NoTag)>> ELSE <<>>

\* The first failing check ends the validation.
ValidateMsgsFirstOnly ==
    IF RunAfterMsgs # <<>> THEN RunAfterMsgs
    ELSE IF AllBoundaryMsgs(BoundaryProcesses) # <<>>
         THEN <<AllBoundaryMsgs(BoundaryProcesses)[1]>>
         ELSE AttrMsgs

\* validate: msgs as it stands before the final test.
ValidateMsgs == RunAfterMsgs \o AllBoundaryMsgs(BoundaryProcesses) \o AttrMsgs

\* Field.validate: the run_after check on the wired field, the boundary
\* checks and the attribute constraint; any message makes it raise one
\* ModelValidationError that joins them all.
Validate ==
    /\ pc = "built"
    /\ msgs' = ValidateMsgs
    /\ IF ValidateMsgs # <<>>
       THEN pc' = "invalid" /\ err' = "validation"
       ELSE pc' = "valid" /\ UNCHANGED err
    /\ UNCHANGED <<netVars, streamEnabled, wireVars, convProc, convAt, runVars,
                   loopVars, prevVars, boundary_dict, imputeVars>>

\* Only the source of the stream is looked at.
ResetStreamsSourceOnly == {s \in Streams : procEnabled[s[1]]}

\* Field.reset_streams: an enabled stream with a disabled end is disabled.
ResetStreams == {s \in Streams : procEnabled[s[1]] /\ procEnabled[s[2]]}

\* Field.find_start_streams, among the streams `enabled`.
FindStartStreams(enabled) == StreamList(enabled \cap has_exogenous_data)

\* The impute flag of the input streams is not looked at.
ImputeUpstreamProcsUnflagged(p) == {inputs[p][i][1] : i \in DOMAIN inputs[p]}

\* _impute: the processes upstream of p over its input streams flagged impute.
ImputeUpstreamProcs(p) ==
    {inputs[p][i][1] : i \in {j \in DOMAIN inputs[p] : inputs[p][j] \in impute}}

\* _impute._impute_upstream: an enabled process that is not yet visited is
\* visited and imputed, then the walk goes on from each of its upstream
\* processes, in the order in which the set upstream_procs iterates.  sd lists
\* the processes imputed so far; the result is the set of the lists the walk
\* can end with, one for every way the sets can iterate.  Process.impute
\* raises nothing here, so the handler of OpgeeStopIteration in _impute is not
\* entered.
RECURSIVE ImputeUpstream(_, _)
RECURSIVE ImputeEach(_, _)
ImputeUpstream(p, sd) ==
    IF procEnabled[p] /\ p \notin Range(sd)
    THEN UNION {ImputeEach(o, Append(sd, p)) : o \in SetOrders(ImputeUpstreamProcs(p))}
    ELSE {sd}

ImputeEach(todo, sd) ==
    IF todo = <<>> THEN {sd}
    ELSE UNION {ImputeEach(Tail(todo), x) : x \in ImputeUpstream(Head(todo), sd)}

\* The outcome of _impute for each list of imputed processes in `walks`.
ImputeOutcomes(walks) == {[err |-> "none", named |-> {}, seeded |-> w] : w \in walks}

\* _impute: start_procs
ImputeStartProcs(enabled) ==
    LET flagged == {p \in Processes : impute_start[p]}
        start_streams == FindStartStreams(enabled)
    IN IF flagged # {} THEN flagged
       ELSE {start_streams[i][1] : i \in DOMAIN start_streams}

\* With several start processes the walk starts from one of them.
ImputeAnyStart(enabled) ==
    LET start_streams == FindStartStreams(enabled)
        starts == ImputeStartProcs(enabled)
    IN IF \E i \in DOMAIN start_streams : start_streams[i] \notin impute
       THEN {[err |-> "start_stream", seeded |-> seeded, named |-> {}]}
       ELSE IF Cardinality(starts) = 0
            THEN {[err |-> "none", seeded |-> seeded, named |-> {}]}
            ELSE ImputeOutcomes(ImputeUpstream(CHOOSE p \in starts : TRUE, seeded))

\* The start streams are looked at only when they determine the start processes.
ImputeFlaggedUnchecked(enabled) ==
    LET start_streams == FindStartStreams(enabled)
        flagged == {p \in Processes : impute_start[p]}
        starts == ImputeStartProcs(enabled)
    IN IF flagged = {} /\ \E i \in DOMAIN start_streams : start_streams[i] \notin impute
       THEN {[err |-> "start_stream", seeded |-> seeded, named |-> {}]}
       ELSE IF Cardinality(starts) = 0
            THEN {[err |-> "none", seeded |-> seeded, named |-> {}]}
            ELSE IF Cardinality(starts) # 1
                 THEN {[err |-> "start_procs", seeded |-> seeded, named |-> starts]}
                 ELSE ImputeOutcomes(ImputeUpstream(CHOOSE p \in starts : TRUE, seeded))

\* Field._impute, where `seeded` lists the processes whose visited marker is
\* set: the outcomes it can have, each the exception it raises, the processes
\* imputed so far and the processes its message names.
Impute(enabled) ==
    LET start_streams == FindStartStreams(enabled)
        starts == ImputeStartProcs(enabled)
    IN IF \E i \in DOMAIN start_streams : start_streams[i] \notin impute
       THEN {[err |-> "start_stream", seeded |-> seeded, named |-> {}]}
       ELSE IF Cardinality(starts) = 0
            THEN {[err |-> "none", seeded |-> seeded, named |-> {}]}
            ELSE IF Cardinality(starts) # 1
                 THEN {[err |-> "start_procs", seeded |-> seeded, named |-> starts]}
                 ELSE ImputeOutcomes(ImputeUpstream(CHOOSE p \in starts : TRUE, seeded))

\* The outcomes of _impute open to this run among `outcomes`.  The sets of
\* upstream processes are built from the same objects in the same way in
\* every run of a field, so in a later run the walk is the walk of the run
\* before, wherever that walk is possible.
ThisRun(outcomes) ==
    LET same == {r \in outcomes : r.seeded = prev_seeded}
    IN IF runs = 1 \/ same = {} THEN outcomes ELSE same

\* Process.reset leaves the in_cycle flag of the process as it is.
ProcessResetKeepsInCycle(p) ==
    [in_cycle |-> in_cycle[p], visited |-> FALSE, invocations |-> 0]

\* Process.reset (opgee/process.py): the per-run transient state of process p
\* after it, the in_cycle flag and the visited marker cleared and the
\* iteration state as reset_iteration leaves it.
ProcessReset(p) == [in_cycle |-> FALSE, visited |-> FALSE, invocations |-> 0]

\* Process.reset_iteration (opgee/process.py): the iteration state of process
\* p after it; the process behaves in run() as it did after the last reset.
ProcessResetIteration(p) == [invocations |-> 0]

\* Field.run from the lookup of the boundary process to the call of reset():
\* a run has started; its record begins, the record of the run before is
\* kept beside it.
BeginRun ==
    /\ pc' = "reset"
    /\ runs' = runs + 1
    /\ prev_trace' = trace
    /\ prev_iter' = iter_count
    /\ prev_seeded' = seeded
    /\ trace' = <<>>
    /\ err' = "none"
    /\ UNCHANGED <<netVars, wireVars, streamEnabled, in_cycle, invocations, sections,
                   imputeVars, loopVars, boundary_dict, msgs>>

\* A lookup that answers with the first process of the field whatever the name.
BoundaryProcessAny(b) == CHOOSE p \in Procs : \A q \in Procs : p <= q

\* Field.boundary_process raises where boundary_dict has no entry for the name.
BoundaryProcess(b) == IF b \in DOMAIN boundary_dict THEN boundary_dict[b] ELSE NoProc

\* The state Field.run leaves alone where it returns or raises before reset().
RunLeaves ==
    UNCHANGED <<netVars, wireVars, streamEnabled, runVars, imputeVars, loopVars,
                prevVars, boundary_dict, msgs>>

\* Field.run with the analysis of the field, up to the call of reset():
\* nothing is done in a disabled field; the OpgeeException of
\* boundary_process ends the run before reset().  procs_beyond_boundary, read
\* by the emission report only, is not followed.
FieldRun ==
    IF ~fieldEnabled
    THEN /\ pc' = "skipped"
         /\ UNCHANGED err
         /\ RunLeaves
    ELSE IF BoundaryProcess(analysis_boundary) = NoProc
         THEN /\ pc' = "failed"
              /\ err' = "boundary"
              /\ RunLeaves
         ELSE BeginRun

\* The first Field.run of a validated field.
Run ==
    /\ pc = "valid"
    /\ UNCHANGED <<convProc, convAt>>
    /\ FieldRun

\* A second Field.run of the same field, after a run that completed or failed.
RunAgain ==
    /\ pc \in {"done", "failed"}
    /\ runs = 1
    /\ UNCHANGED <<convProc, convAt>>
    /\ FieldRun

\* Field.run on a field whose last run gave up at the ceiling; this time the
\* processes behave in any of the ways they can.
Retry ==
    /\ pc = "failed"
    /\ err = "max_iterations"
    /\ runs = 1
    /\ \E p \in Processes \cup {NoProc} :
          /\ convProc' = p
          /\ convAt' \in IF p = NoProc THEN {0} ELSE 1..MaxConvAt
    /\ FieldRun

\* Field.reset: reset_streams, then reset_processes, which resets every
\* enabled process.
Reset ==
    /\ pc = "reset"
    /\ streamEnabled' = ResetStreams
    /\ in_cycle' = [p \in Procs |-> IF procEnabled[p] THEN ProcessReset(p).in_cycle
                                     ELSE in_cycle[p]]
    /\ invocations' = [p \in Procs |-> IF procEnabled[p] THEN ProcessReset(p).invocations
                                        ELSE invocations[p]]
    /\ seeded' = SelectSeq(seeded, LAMBDA p : IF procEnabled[p] THEN ProcessReset(p).visited
                                              ELSE TRUE)
    /\ pc' = "impute"
    /\ UNCHANGED <<netVars, wireVars, convProc, convAt, sections, trace, err, named,
                   loopVars, prevVars, boundary_dict, msgs>>

\* Field.run: the call of _impute; an exception of _impute ends the run.
CallImpute ==
    /\ pc = "impute"
    /\ \E r \in ThisRun(Impute(Streams)) :
          /\ seeded' = r.seeded
          /\ named' = r.named
          /\ err' = r.err
          /\ pc' = IF r.err = "none" THEN "reset_iteration" ELSE "failed"
    /\ UNCHANGED <<netVars, wireVars, streamEnabled, convProc, convAt, runVars,
                   loopVars, prevVars, boundary_dict, msgs>>

\* Field.reset_iteration: the iteration state of every enabled process is
\* reset; then Field.run calls run_processes.
ResetIteration ==
    /\ pc = "reset_iteration"
    /\ invocations' = [p \in Procs |-> IF procEnabled[p]
                                        THEN ProcessResetIteration(p).invocations
                                        ELSE invocations[p]]
    /\ pc' = "run_processes"
    /\ UNCHANGED <<netVars, wireVars, streamEnabled, convProc, convAt, in_cycle,
                   sections, trace, err, imputeVars, loopVars, prevVars, boundary_dict,
                   msgs>>

\* run_processes: _compute_graph_sections and the in_cycle flags.  How the
\* processes behave in run() is fixed when the first run of the field starts
\* to schedule them, and is the same in a later run.
ComputeSections ==
    /\ pc = "run_processes"
    /\ sections' = ComputeGraphSections
    /\ in_cycle' = [p \in Procs |-> in_cycle[p] \/ p \in ProcsInCycles]
    /\ pc' = "independent"
    /\ IF runs = 1
       THEN \E p \in Processes \cup {NoProc} :
               /\ convProc' = p
               /\ convAt' \in IF p = NoProc THEN {0} ELSE 1..MaxConvAt
       ELSE UNCHANGED <<convProc, convAt>>
    /\ UNCHANGED <<netVars, streamEnabled, wireVars, invocations,
                   err, loopVars, trace, prevVars, boundary_dict, msgs, imputeVars>>

\* A process that has run once is not run again.
RECURSIVE RunListFirstVisitOnly(_, _, _, _)
RunListFirstVisitOnly(order, phase, pass, st) ==
    IF order = <<>> \/ st.converged THEN st
    ELSE LET p == Head(order)
             n == st.invocations[p] + 1
         IN RunListFirstVisitOnly(Tail(order), phase, pass,
                    IF RunsIfEnabled(p) /\ n = 1
                    THEN [invocations |-> [st.invocations EXCEPT ![p] = n],
                          trace |-> Append(st.trace, Invocation(p, phase, pass)),
                          converged |-> Converges(p, n)]
                    ELSE st)

\* The signal looked at only after the whole list has run.
RECURSIVE RunListWholePass(_, _, _, _)
RunListWholePass(order, phase, pass, st) ==
    IF order = <<>> THEN st
    ELSE LET p == Head(order)
             n == st.invocations[p] + 1
         IN RunListWholePass(Tail(order), phase, pass,
                    IF procEnabled[p]
                    THEN [invocations |-> [st.invocations EXCEPT ![p] = n],
                          trace |-> Append(st.trace, Invocation(p, phase, pass)),
                          converged |-> st.converged \/ (p = convProc /\ n = convAt)]
                    ELSE st)

\* A for loop that calls run_if_enabled on the processes of `order` in turn
\* and is left by the first OpgeeIterationConverged.  st is [invocations,
\* trace, converged].
RECURSIVE RunList(_, _, _, _)
RunList(order, phase, pass, st) ==
    IF order = <<>> \/ st.converged THEN st
    ELSE LET p == Head(order)
             n == st.invocations[p] + 1
         IN RunList(Tail(order), phase, pass,
                    IF RunsIfEnabled(p)
                    THEN [invocations |-> [st.invocations EXCEPT ![p] = n],
                          trace |-> Append(st.trace, Invocation(p, phase, pass)),
                          converged |-> Converges(p, n)]
                    ELSE st)

RunState == [invocations |-> invocations, trace |-> trace, converged |-> FALSE]

\* The orders in which the nodes of graph.subgraph(S) can iterate in this
\* run, S being the section run in `phase`; cycle_independent holds the
\* Reservoir besides S.  The sections are built from the same objects in the
\* same way in every run of a field, so a later run sorts S as the run before
\* did, as far as the invocations of that run show it.
SubgraphOrders(S, phase) ==
    LET all == SubgraphNodes(S, Cardinality(S) + (IF phase = "independent" THEN 1 ELSE 0))
        t == SelectSeq(prev_trace, LAMBDA e : e.phase = phase)
        before == [i \in 1..Len(t) |-> t[i].proc]
        same == {o \in all :
                    LET s == TopologicalSort(S, o)
                    IN Len(before) <= Len(s) /\ SubSeq(s, 1, Len(before)) = before}
    IN IF runs = 1 \/ same = {} THEN all ELSE same

\* run_procs_in_order(S): the processes nx.topological_sort yields are run in
\* turn; the generator ends with NetworkXUnfeasible when the subgraph has a
\* cycle.  An OpgeeIterationConverged raised here is caught nowhere in
\* run_processes.  `next` is where run_processes goes on.
RunProcsInOrder(S, phase, next) ==
    \E nodes \in SubgraphOrders(S, phase) :
        LET order == TopologicalSort(S, nodes)
            st == RunList(order, phase, 0, RunState)
        IN /\ invocations' = st.invocations
           /\ trace' = st.trace
           /\ IF st.converged
              THEN pc' = "failed" /\ err' = "converged"
              ELSE IF Len(order) # Cardinality(S)
                   THEN pc' = "failed" /\ err' = "unfeasible"
                   ELSE pc' = next /\ UNCHANGED err

RunIndependent ==
    /\ pc = "independent"
    /\ RunProcsInOrder(sections.independent, "independent", "start_cycles")
    /\ UNCHANGED <<netVars, streamEnabled, wireVars, in_cycle, convProc, convAt,
                   sections, loopVars, prevVars, boundary_dict, msgs, imputeVars>>

\* run_processes after the independent pass: start_procs, max_iter, the
\* ordered cycle.  The ceiling is the model's maximum_iterations, a setting
\* that does not change between the runs of a field.
StartCycles ==
    /\ pc = "start_cycles"
    /\ \E x \in CycleOrders :
          /\ start_procs' = x.start_procs
          /\ IF Len(x.start_procs) > 1
             THEN /\ pc' = "failed"
                  /\ err' = "cycle_start"
                  /\ UNCHANGED <<max_iter, ordered_cycle, iter_count>>
             ELSE /\ max_iter' \in IF runs = 1 THEN 1..MaxCeiling ELSE {max_iter}
                  /\ UNCHANGED err
                  /\ IF sections.in_cycle # {}
                     THEN /\ ordered_cycle' = x.ordered_cycle
                          /\ iter_count' = InitialIterCount
                          /\ pc' = "loop"
                     ELSE /\ pc' = "dependent"
                          /\ UNCHANGED <<ordered_cycle, iter_count>>
    /\ UNCHANGED <<netVars, streamEnabled, wireVars, in_cycle, convProc, convAt,
                   invocations, sections, reported, trace, prevVars, boundary_dict,
                   msgs, imputeVars>>

\* One iteration of the while loop: count it, give up past the ceiling, else
\* run ordered_cycle; OpgeeIterationConverged breaks out of the loop.
LoopPass ==
    /\ pc = "loop"
    /\ iter_count' = iter_count + 1
    /\ IF CeilingExceeded(iter_count + 1, max_iter)
       THEN /\ pc' = LoopTarget(TRUE, FALSE)
            /\ err' = "max_iterations"
            /\ reported' = max_iter
            /\ UNCHANGED <<invocations, trace>>
       ELSE LET st == RunList(ordered_cycle, "cycle", iter_count + 1, RunState)
            IN /\ invocations' = st.invocations
               /\ trace' = st.trace
               /\ pc' = LoopTarget(FALSE, st.converged)
               /\ UNCHANGED <<err, reported>>
    /\ UNCHANGED <<netVars, streamEnabled, wireVars, in_cycle, convProc, convAt,
                   sections, start_procs, max_iter, ordered_cycle, prevVars,
                   boundary_dict, msgs, imputeVars>>

RunDependent ==
    /\ pc = "dependent"
    /\ RunProcsInOrder(sections.dependent, "dependent", "after")
    /\ UNCHANGED <<netVars, streamEnabled, wireVars, in_cycle, convProc, convAt,
                   sections, loopVars, prevVars, boundary_dict, msgs, imputeVars>>

\* run_procs_in_order(run_afters), after which run_processes returns.
RunDeferred ==
    /\ pc = "after"
    /\ RunProcsInOrder(sections.run_afters, "after", "done")
    /\ UNCHANGED <<netVars, streamEnabled, wireVars, in_cycle, convProc, convAt,
                   sections, loopVars, prevVars, boundary_dict, msgs, imputeVars>>

Next ==
    \/ Construct
    \/ AfterInit
    \/ Validate
    \/ Run
    \/ Reset
    \/ CallImpute
    \/ ResetIteration
    \/ ComputeSections
    \/ RunIndependent
    \/ StartCycles
    \/ LoopPass
    \/ RunDependent
    \/ RunDeferred

Spec == Init /\ [][Next]_vars

\* The same field run twice by its caller; the fields explored have up to
\* MaxRepeatStreams streams and at most one run_after process.
InitRepeat ==
    /\ Init
    /\ Len(stream_dict) <= MaxRepeatStreams
    /\ \A p, q \in Procs : (run_after[p] /\ run_after[q]) => p = q

NextRepeat == Next \/ RunAgain

SpecRepeat == InitRepeat /\ [][NextRepeat]_vars

\* A field run again after a run that gave up at the ceiling; the fields
\* explored have up to MaxRetryStreams streams and at most one run_after
\* process.
InitRetry ==
    /\ Init
    /\ Len(stream_dict) <= MaxRetryStreams
    /\ \A p, q \in Procs : (run_after[p] /\ run_after[q]) => p = q

NextRetry == Next \/ Retry

SpecRetry == InitRetry /\ [][NextRetry]_vars

\* Fields with any number of cycle_start processes, up to MaxStartStreams
\* streams and no run_after process.
InitStart ==
    /\ stream_dict \in StreamDicts(MaxStartStreams)
    /\ procEnabled \in OneDisabled
    /\ run_after = [p \in Procs |-> FALSE]
    /\ cycle_start \in [ProcNames -> BOOLEAN]
    /\ ProductionBoundary
    /\ NoExogenousData
    /\ Declared

SpecStart == InitStart /\ [][Next]_vars

\* Fields whose processes declare any boundary name, known or not, at the top
\* level or in an aggregator; no streams.
InitConstruct ==
    /\ stream_dict = <<>>
    /\ procEnabled \in OneDisabled
    /\ run_after = [p \in Procs |-> FALSE]
    /\ cycle_start = [p \in Procs |-> FALSE]
    /\ boundary \in [ProcNames -> {NoTag} \cup Tags]
    /\ agg \in [ProcNames -> {NoAgg} \cup Aggs]
    /\ NoAnalysis
    /\ steam_flooding = FALSE
    /\ SOR = 0
    /\ NoExogenousData
    /\ Declared

NextConstruct == Construct

SpecConstruct == InitConstruct /\ [][NextConstruct]_vars

\* Up to two processes declare a boundary, with the known boundary names
\* taken in the order of OPGEE.Boundaries.
BoundaryDecls ==
    {f \in [ProcNames -> {NoTag} \cup KnownBoundaries] :
        /\ \E p \in ProcNames : f[p] = NoTag
        /\ \A p \in ProcNames : f[p] > 1 => \E q \in ProcNames : q < p /\ f[q] = f[p] - 1}

\* The aggregator has no member, or two or more.
AggDecls ==
    {f \in [ProcNames -> {NoAgg} \cup Aggs] : Cardinality({p \in ProcNames : f[p] # NoAgg}) # 1}

\* Fields with boundaries and an aggregator, up to MaxValidateStreams streams,
\* at most one disabled and at most one run_after process.
InitValidate ==
    /\ stream_dict \in StreamDicts(MaxValidateStreams)
    /\ procEnabled \in OneDisabled
    /\ run_after \in OneFlagged
    /\ cycle_start = [p \in Procs |-> FALSE]
    /\ boundary \in BoundaryDecls
    /\ agg \in AggDecls
    /\ NoAnalysis
    /\ steam_flooding \in BOOLEAN
    /\ SOR \in (IF steam_flooding THEN {0, 1} ELSE {0})
    /\ NoExogenousData
    /\ Declared

NextValidate == Construct \/ AfterInit \/ Validate

SpecValidate == InitValidate /\ [][NextValidate]_vars

\* Fields with exogenous data: up to MaxImputeStreams streams, each with its
\* has_exogenous_data and impute flags, any number of impute_start processes.
InitImpute ==
    /\ stream_dict \in StreamDicts(MaxImputeStreams)
    /\ procEnabled \in OneDisabled
    /\ run_after = [p \in Procs |-> FALSE]
    /\ cycle_start = [p \in Procs |-> FALSE]
    /\ ProductionBoundary
    /\ has_exogenous_data \in SUBSET DeclaredStreams
    /\ impute \in SUBSET DeclaredStreams
    /\ impute_start \in [ProcNames -> BOOLEAN]
    /\ Declared

NextImpute ==
    Construct \/ AfterInit \/ Validate \/ Run \/ Reset \/ CallImpute \/ ResetIteration

SpecImpute == InitImpute /\ [][NextImpute]_vars

\* The processes from which a process of S is reached over the streams of I.
RECURSIVE UpstreamOver(_, _)
UpstreamOver(I, S) ==
    LET T == S \cup {s[1] : s \in {t \in I : t[2] \in S}}
    IN IF T = S THEN S ELSE UpstreamOver(I, T)

\* The streams of I form no loop.
LoopFree(I) == \A s \in I : s[2] \notin UpstreamOver(I, {s[1]})

\* Fields with one impute_start process, where the walk starts, and no
\* stream with exogenous data: up to MaxWalkStreams streams, those flagged
\* impute forming no loop.
InitWalk ==
    /\ stream_dict \in StreamDicts(MaxWalkStreams)
    /\ procEnabled \in OneDisabled
    /\ run_after = [p \in Procs |-> FALSE]
    /\ cycle_start = [p \in Procs |-> FALSE]
    /\ ProductionBoundary
    /\ has_exogenous_data = {}
    /\ impute \in {I \in SUBSET DeclaredStreams : LoopFree(I)}
    /\ impute_start \in {[p \in ProcNames |-> p = s] : s \in ProcNames}
    /\ Declared

SpecWalk == InitWalk /\ [][NextImpute]_vars

\* Fields run with an analysis: the field is enabled or not, up to two of its
\* processes declare a boundary, at the top level or in the aggregator, and
\* the analysis names any boundary; up to MaxAnalysisStreams streams.
InitAnalysis ==
    /\ stream_dict \in StreamDicts(MaxAnalysisStreams)
    /\ procEnabled \in OneDisabled
    /\ run_after = [p \in Procs |-> FALSE]
    /\ cycle_start = [p \in Procs |-> FALSE]
    /\ boundary \in BoundaryDecls
    /\ agg \in AggDecls
    /\ fieldEnabled \in BOOLEAN
    /\ analysis_boundary \in Tags
    /\ NoChoices
    /\ steam_flooding = FALSE
    /\ SOR = 0
    /\ NoExogenousData
    /\ Declared

NextAnalysis ==
    Construct \/ AfterInit \/ Validate \/ Run \/ Reset \/ CallImpute \/ ResetIteration

SpecAnalysis == InitAnalysis /\ [][NextAnalysis]_vars

\* Fields with process choices: two choices "t1" and "t2" of the field, each
\* with the groups "a" and "b", and a choice "n" nested in group "a" of "t1";
\* the groups name the first two processes up to MaxMembers times between
\* them, one group at most names the stream, and a process may be named by
\* several groups.  The attribute of "t2" may be missing.  One stream, at most
\* one disabled process.
ChoiceNames == {"t1", "t2", "n"}
GroupNames == {"a", "b"}
GroupSlots == ChoiceNames \X GroupNames
GroupedProcs == {1, 2}

RECURSIVE SubsetsUpTo(_, _)
SubsetsUpTo(S, n) ==
    IF n = 0 THEN {{}}
    ELSE LET smaller == SubsetsUpTo(S, n - 1)
         IN smaller \cup {T \cup {x} : T \in smaller, x \in S}

\* The ProcessGroup `g` of choice `c`: pm holds the processes the groups name,
\* sm the groups that name the streams of the field.
ProcessGroup(c, g, pm, sm, streams, nested) ==
    [name |-> g,
     procs |-> {p \in ProcNames : <<<<c, g>>, p>> \in pm},
     streams |-> IF <<c, g>> \in sm THEN streams ELSE {},
     process_choice_dict |-> nested]

ProcessChoice(c, order, pm, sm, streams, nested) ==
    [name |-> c,
     groups_dict |-> [i \in DOMAIN order |->
                         ProcessGroup(c, order[i], pm, sm, streams,
                                      IF order[i] = "a" THEN nested ELSE <<>>)]]

ChoiceDicts(streams) ==
    {<<ProcessChoice("t1", order, pm, sm, streams,
                     <<ProcessChoice("n", order, pm, sm, streams, <<>>)>>),
       ProcessChoice("t2", order, pm, sm, streams, <<>>)>> :
        order \in {<<"a", "b">>, <<"b", "a">>},
        pm \in SubsetsUpTo(GroupSlots \X GroupedProcs, MaxMembers),
        sm \in SubsetsUpTo(GroupSlots, 1)}

AttrDicts ==
    {[c \in D |-> IF c = "t1" THEN v[1] ELSE IF c = "n" THEN v[2] ELSE v[3]] :
        D \in {ChoiceNames, ChoiceNames \ {"t2"}},
        v \in {"a", "B"} \X {"a", "b"} \X {"a", "b"}}

InitChoices ==
    /\ stream_dict = <<<<1, 2>>>>
    /\ procEnabled \in OneDisabled
    /\ run_after = [p \in Procs |-> FALSE]
    /\ cycle_start = [p \in Procs |-> FALSE]
    /\ boundary = [p \in Procs |-> NoTag]
    /\ agg = [p \in Procs |-> NoAgg]
    /\ steam_flooding = FALSE
    /\ SOR = 0
    /\ fieldEnabled = TRUE
    /\ analysis_boundary = NoTag
    /\ process_choice_dict \in ChoiceDicts(DeclaredStreams)
    /\ NoCluster
    /\ attr_dict \in AttrDicts
    /\ NoExogenousData
    /\ Declared

NextChoices == Construct \/ ResolveProcessChoices \/ AfterChoices

SpecChoices == InitChoices /\ [][NextChoices]_vars

\* ------------------------------------------------------- the Ray commands
\* Everything of the field, which the Ray commands leave alone.
fieldVars == <<procEnabled, run_after, cycle_start, stream_dict, declVars,
               streamEnabled, wireVars, convProc, convAt, pc, err, runVars, loopVars,
               prevVars, boundary_dict, msgs, imputeVars>>

\* The text of a file is a sequence of characters.  The address of the
\* cluster started by command i is i characters long, so that the addresses
\* of two clusters differ in length as host names and ports do; Newline is
\* the character written after it.
Newline == 0
Address(i) == [k \in 1..i |-> i]

\* A write of `new` at offset 0 of a file that holds `old`: what lies past
\* the end of the new text stays.
Overwrite(old, new) == new \o SubSeq(old, Len(new) + 1, Len(old))

\* str.strip, on texts of addresses and newlines.
RECURSIVE Strip(_)
Strip(text) ==
    IF text = <<>> THEN <<>>
    ELSE IF Head(text) = Newline THEN Strip(Tail(text))
    ELSE IF text[Len(text)] = Newline THEN Strip(SubSeq(text, 1, Len(text) - 1))
    ELSE text

\* 'opg ray start' i up to the return of start_ray_cluster; outside SLURM the
\* command raises.
StartCluster(i) ==
    /\ startCmd[i].pc = "idle"
    /\ \E slurm \in BOOLEAN :
           startCmd' = [startCmd EXCEPT ![i].pc = IF slurm THEN "started" ELSE "error"]
    /\ UNCHANGED <<files, contents, stop, observed, fieldVars>>

\* open(addr_file, 'w') of command i: the address file itself is made, or
\* emptied where it exists.
OpenTmpInPlace(i) ==
    /\ startCmd[i].pc = "started"
    /\ LET f == IF files["addr_file"] = NoFile THEN i ELSE files["addr_file"]
       IN /\ files' = [files EXCEPT !["addr_file"] = f]
          /\ contents' = [contents EXCEPT ![f] = <<>>]
          /\ startCmd' = [startCmd EXCEPT ![i] = [pc |-> "opened", f |-> f]]
    /\ UNCHANGED <<stop, observed, fieldVars>>

\* open(tmp_file, 'w') of command i: the file named addr_file + '.tmp' is
\* made, or emptied where the name exists, whoever made it.
OpenTmp(i) ==
    /\ startCmd[i].pc = "started"
    /\ LET f == IF files["tmp_file"] = NoFile THEN i ELSE files["tmp_file"]
       IN /\ files' = [files EXCEPT !["tmp_file"] = f]
          /\ contents' = [contents EXCEPT ![f] = <<>>]
          /\ startCmd' = [startCmd EXCEPT ![i] = [pc |-> "opened", f |-> f]]
    /\ UNCHANGED <<stop, observed, fieldVars>>

\* f.write(address + '\n') and the close at the end of the with block: the
\* text reaches the file command i opened at offset 0, and the file is not
\* truncated again.
WriteAddress(i) ==
    /\ startCmd[i].pc = "opened"
    /\ contents' = [contents EXCEPT
                       ![startCmd[i].f] = Overwrite(@, Address(i) \o <<Newline>>)]
    /\ startCmd' = [startCmd EXCEPT ![i].pc = "closed"]
    /\ UNCHANGED <<files, stop, observed, fieldVars>>

\* os.rename(src, dst) in the directory fs.
Rename(fs, src, dst) == [fs EXCEPT ![dst] = fs[src], ![src] = NoFile]

\* os.rename(tmp_file, addr_file) of command i; FileNotFoundError where the
\* temporary name is gone.
RenameTmp(i) ==
    /\ startCmd[i].pc = "closed"
    /\ IF files["tmp_file"] = NoFile
       THEN /\ startCmd' = [startCmd EXCEPT ![i].pc = "error"]
            /\ UNCHANGED files
       ELSE /\ startCmd' = [startCmd EXCEPT ![i].pc = "done"]
            /\ files' = Rename(files, "tmp_file", "addr_file")
    /\ UNCHANGED <<contents, stop, observed, fieldVars>>

\* 'opg ray stop': open(addr_file, 'r'); FileNotFoundError where the name
\* does not exist.  The command holds the file the name led to, whatever
\* becomes of the name afterwards.
StopOpen ==
    /\ stop.pc = "idle"
    /\ IF files["addr_file"] = NoFile
       THEN stop' = [stop EXCEPT !.pc = "error"]
       ELSE stop' = [stop EXCEPT !.pc = "opened", !.f = files["addr_file"]]
    /\ UNCHANGED <<files, contents, startCmd, observed, fieldVars>>

\* address = f.read().strip(): what the opened file holds now.
StopRead ==
    /\ stop.pc = "opened"
    /\ stop' = [stop EXCEPT !.pc = "read", !.address = Strip(contents[stop.f])]
    /\ UNCHANGED <<files, contents, startCmd, observed, fieldVars>>

\* ray.init(address=address) and ray.shutdown().
StopShutdown ==
    /\ stop.pc = "read"
    /\ stop' = [stop EXCEPT !.pc = IF \E i \in Starters : stop.address = Address(i)
                                    THEN "shutdown" ELSE "error"]
    /\ UNCHANGED <<files, contents, startCmd, observed, fieldVars>>

\* os.rename(addr_file, addr_file + '.stopped').
StopRename ==
    /\ stop.pc = "shutdown"
    /\ IF files["addr_file"] = NoFile
       THEN /\ stop' = [stop EXCEPT !.pc = "error"]
            /\ UNCHANGED files
       ELSE /\ stop' = [stop EXCEPT !.pc = "done"]
            /\ files' = Rename(files, "addr_file", "stopped")
    /\ UNCHANGED <<contents, startCmd, observed, fieldVars>>

\* Another program opens the address file for reading; where the name does
\* not exist it has seen that there is no address file.
OpenAddressFile ==
    /\ observed.pc = "closed"
    /\ observed' = IF files["addr_file"] = NoFile
                   THEN [pc |-> "closed", f |-> NoFile, exists |-> FALSE, text |-> <<>>,
                         renamed |-> FALSE]
                   ELSE [observed EXCEPT !.pc = "open", !.f = files["addr_file"]]
    /\ UNCHANGED <<files, contents, startCmd, stop, fieldVars>>

\* The program reads the file it has opened and closes it; `renamed` tells
\* whether the name addr_file had left that file by then.
ReadAddressFile ==
    /\ observed.pc = "open"
    /\ observed' = [pc |-> "closed", f |-> observed.f, exists |-> TRUE,
                    text |-> contents[observed.f],
                    renamed |-> files["addr_file"] # observed.f]
    /\ UNCHANGED <<files, contents, startCmd, stop, fieldVars>>

\* MaxStarts 'opg ray start' commands, one 'opg ray stop' and a reader, on one
\* address file, in any interleaving; the field plays no part.
InitRay ==
    /\ stream_dict = <<>>
    /\ procEnabled = [p \in ProcNames |-> TRUE]
    /\ run_after = [p \in Procs |-> FALSE]
    /\ cycle_start = [p \in Procs |-> FALSE]
    /\ NoBoundaries
    /\ NoExogenousData
    /\ Declared

NextRay ==
    \/ \E i \in Starters : StartCluster(i) \/ OpenTmp(i) \/ WriteAddress(i) \/ RenameTmp(i)
    \/ StopOpen
    \/ StopRead
    \/ StopShutdown
    \/ StopRename
    \/ OpenAddressFile
    \/ ReadAddressFile

SpecRay == InitRay /\ [][NextRay]_vars

\* Fields with exogenous data run twice: up to MaxOrderStreams streams, all
\* flagged impute and at most one with exogenous data, at most one disabled
\* process and at most one process tagged impute_start.
InitOrder ==
    /\ stream_dict \in StreamDicts(MaxOrderStreams)
    /\ procEnabled \in OneDisabled
    /\ run_after = [p \in Procs |-> FALSE]
    /\ cycle_start = [p \in Procs |-> FALSE]
    /\ ProductionBoundary
    /\ has_exogenous_data \in {X \in SUBSET DeclaredStreams : Cardinality(X) <= 1}
    /\ impute = DeclaredStreams
    /\ impute_start \in OneFlagged
    /\ Declared

SpecOrder == InitOrder /\ [][NextRepeat]_vars

\* Fields of four processes, all enabled, with up to MaxSectionStreams streams
\* and at most one run_after process: the networks on which the sections are
\* computed, with room for a cycle beside paths that part and meet again.
MoreProcNames == ProcNames \cup {4}

InitSections ==
    /\ stream_dict \in StreamDictsOver(MoreProcNames, MaxSectionStreams)
    /\ procEnabled = [p \in MoreProcNames |-> TRUE]
    /\ run_after \in {[p \in MoreProcNames |-> p = s] : s \in MoreProcNames \cup {NoProc}}
    /\ cycle_start = [p \in Procs |-> FALSE]
    /\ ProductionBoundary
    /\ NoExogenousData
    /\ Declared

NextSections ==
    \/ Construct \/ AfterInit \/ Validate
    \/ Run \/ Reset \/ CallImpute \/ ResetIteration \/ ComputeSections

SpecSections == InitSections /\ [][NextSections]_vars

\* Fields whose streams may be disabled in their declaration and may name a
\* process the field does not have: up to MaxBuildStreams streams, at most one
\* disabled process.
StreamNames == ProcNames \cup {NoProc}

InitBuild ==
    /\ stream_dict \in StreamDictsAnyOrder(StreamNames, MaxBuildStreams)
    /\ streamEnabled \in SUBSET DeclaredStreams
    /\ procEnabled \in OneDisabled
    /\ run_after = [p \in Procs |-> FALSE]
    /\ cycle_start = [p \in Procs |-> FALSE]
    /\ ProductionBoundary
    /\ NoExogenousData
    /\ Unbuilt

NextBuild == Construct \/ AfterInit \/ Rebuild

SpecBuild == InitBuild /\ [][NextBuild]_vars

\* The same fields, built, validated and run.
NextReset ==
    Construct \/ AfterInit \/ Validate \/ Run \/ Reset \/ CallImpute \/ ResetIteration

SpecReset == InitBuild /\ [][NextReset]_vars

\* ------------------------------------------------------------- the claims
\* run_processes has computed the sections of the current run.
Computed ==
    pc \in {"independent", "start_cycles", "loop", "dependent", "after", "done", "failed"}

Invoked(p) == \E i \in DOMAIN trace : trace[i].proc = p

FirstRun(p) == Min({i \in DOMAIN trace : trace[i].proc = p})

\* The invocations made by the convergence loop, in order.
CycleTrace == SelectSeq(trace, LAMBDA e : e.phase = "cycle")

\* The sections in the order in which run_processes executes them.
SectionList ==
    <<sections.independent, sections.in_cycle, sections.dependent, sections.run_afters>>

\* trace[i] is the invocation inside the convergence loop whose run() raised
\* OpgeeIterationConverged.
ConvergedAt(i) ==
    /\ trace[i].phase = "cycle"
    /\ trace[i].proc = convProc
    /\ Cardinality({j \in 1..i : trace[j].proc = convProc}) = convAt

\* C1: the four sets returned by _compute_graph_sections are pairwise disjoint
\* and their union is the set of enabled processes.
C1_SectionsPartitionEnabled ==
    Computed =>
        /\ \A i, j \in 1..4 : i < j => SectionList[i] \cap SectionList[j] = {}
        /\ UNION Range(SectionList) = Processes

\* C2: in a run that completes without error, every enabled process outside
\* the in-cycle section has had its run() called exactly once.
C2_RunExactlyOnce ==
    pc = "done" => \A p \in Processes \ sections.in_cycle : invocations[p] = 1

\* C3: the sections are executed in the order independent, in-cycle,
\* cycle-dependent, deferred: every invocation of a process of an earlier
\* section precedes the first invocation of any process of a later section
\* (an invocation is not asked to precede itself).
C3_SectionOrder ==
    Computed =>
        \A i, j \in 1..4 : i < j =>
            \A u \in SectionList[i], v \in SectionList[j] :
                \A a \in DOMAIN trace :
                    (trace[a].proc = u /\ Invoked(v)) =>
                        (a < FirstRun(v) \/ (u = v /\ a = FirstRun(v)))

\* C4: for every stream (u, v) between enabled processes with u outside the
\* in-cycle section, the first invocation of u precedes the first invocation
\* of v.
C4_DependencyOrder ==
    Computed =>
        \A e \in graph.edges :
            (/\ procEnabled[e[1]]
             /\ procEnabled[e[2]]
             /\ e[1] \notin sections.in_cycle
             /\ Invoked(e[2]))
            => (Invoked(e[1]) /\ FirstRun(e[1]) < FirstRun(e[2]))

\* C5: for every stream (u, v) with both ends in the independent section, u is
\* invoked strictly before v.
C5_IndependentTopological ==
    Computed =>
        \A e \in graph.edges :
            (/\ e[1] \in sections.independent
             /\ e[2] \in sections.independent
             /\ Invoked(e[2]))
            => (Invoked(e[1]) /\ FirstRun(e[1]) < FirstRun(e[2]))

\* The independent pass has run a chain of streams that goes against the
\* declaration order of the processes.
C5_Witness ==
    /\ pc = "start_cycles"
    /\ \E e, f \in graph.edges :
          /\ e[2] = f[1]
          /\ e[1] > e[2]
          /\ {e[1], e[2], f[2]} \subseteq sections.independent
          /\ Cardinality({e[1], e[2], f[2]}) = 3
          /\ Invoked(f[2])

\* n full passes over ordered_cycle, as the loop records them.
FullPasses(n) ==
    [k \in 1..(n * Len(ordered_cycle)) |->
        Invocation(ordered_cycle[((k - 1) % Len(ordered_cycle)) + 1], "cycle",
                   ((k - 1) \div Len(ordered_cycle)) + 1)]

\* C6: the loop fails with the max-iterations error after exactly max_iter
\* full passes over ordered_cycle, naming max_iter; no pass beyond max_iter is
\* started; and the loop is left without that error only by a process that
\* signalled convergence.
C6_CeilingEnforced ==
    /\ (pc = "failed" /\ err = "max_iterations") =>
            (CycleTrace = FullPasses(max_iter) /\ reported = max_iter)
    /\ \A i \in DOMAIN trace : trace[i].phase = "cycle" => trace[i].pass <= max_iter
    /\ (pc \in {"dependent", "after", "done"} /\ sections.in_cycle # {}) =>
            \E i \in DOMAIN trace : ConvergedAt(i)

\* The loop gave up after two or more passes over two or more processes.
C6_Witness ==
    /\ pc = "failed"
    /\ err = "max_iterations"
    /\ max_iter >= 2
    /\ Len(ordered_cycle) >= 2

\* C7: once an invocation inside the loop raises the converged signal, no
\* later invocation belongs to the loop, the max-iterations error is not
\* raised, and the run goes on with the cycle-dependent and then the deferred
\* section.
C7_ConvergedStopsLoop ==
    \A i \in DOMAIN trace : ConvergedAt(i) =>
        /\ \A j \in DOMAIN trace : j > i => trace[j].phase \in {"dependent", "after"}
        /\ \A j, k \in DOMAIN trace :
              (j < k /\ trace[j].phase = "after") => trace[k].phase = "after"
        /\ pc \in {"dependent", "after", "done", "failed"}
        /\ err # "max_iterations"
        /\ pc \in {"after", "done"} =>
              \A p \in sections.dependent :
                  \E j \in DOMAIN trace : j > i /\ trace[j] = Invocation(p, "dependent", 0)
        /\ pc = "done" =>
              \A p \in sections.run_afters :
                  \E j \in DOMAIN trace : j > i /\ trace[j] = Invocation(p, "after", 0)

\* The signal came in the second pass from a process that is not the last of
\* the pass, and the run went on to completion through a cycle-dependent
\* process.
C7_Witness ==
    /\ pc = "done"
    /\ sections.dependent # {}
    /\ \E i \in DOMAIN trace :
          /\ ConvergedAt(i)
          /\ trace[i].pass = 2
          /\ trace[i].proc # ordered_cycle[Len(ordered_cycle)]

\* C8: run_processes never ends with the converged signal as its outcome.
C8_ConvergedNeverSurfaces == ~(pc = "failed" /\ err = "converged")

\* C9: after the max-iterations error the run is over: no process of the
\* cycle-dependent or deferred section has been invoked, and the loop has not
\* been entered again.
C9_CeilingAborts ==
    err = "max_iterations" =>
        /\ pc = "failed"
        /\ \A i \in DOMAIN trace : trace[i].phase \notin {"dependent", "after"}
        /\ Len(CycleTrace) = max_iter * Len(ordered_cycle)

\* The run was given up with cycle-dependent and deferred processes waiting.
C9_Witness ==
    /\ pc = "failed"
    /\ err = "max_iterations"
    /\ sections.dependent # {}
    /\ sections.run_afters # {}

C11_MultipleStartsRejected ==
    Cardinality({p \in Processes : cycle_start[p]}) > 1 =>
        pc \notin {"loop", "dependent", "after", "done"}

\* C12: when the error about several cycle_start processes is raised, no
\* process has been run.
C12_StartErrorBeforeAnyRun == err = "cycle_start" => trace = <<>>

\* C13: in a field whose construction succeeded no boundary name is declared
\* by two processes, at the top level or inside an aggregator.
C13_BoundaryTagsUnique ==
    pc = "new" =>
        \A p, q \in Procs :
            (p # q /\ boundary[p] # NoTag) => boundary[p] # boundary[q]

\* validate has returned or raised.
Validated == pc \in {"valid", "invalid"}

\* validate reported boundary process b as being in a cycle.
CycleReported(b) ==
    \E i \in DOMAIN msgs : msgs[i].kind = "cycle" /\ msgs[i].proc = b

\* Aggregator a has a member beyond boundary process b and a member that is not.
Spans(a, b) ==
    \E m, n \in Procs :
        /\ agg[m] = a
        /\ agg[n] = a
        /\ m \in Beyond(b)
        /\ n \notin Beyond(b)

\* C14 as stated, for every process that declares a boundary, enabled or
\* not: it is reported as being in a cycle exactly when a process is beyond
\* it and it is a member of a detected cycle.
C14_CycleReportedIffSpanning ==
    Validated =>
        \A b \in Procs : boundary[b] # NoTag =>
            (CycleReported(b) <=> (Beyond(b) # {} /\ IsCycleMember(b)))

\* C14, for the enabled processes that declare a boundary: such a process is
\* reported as being in a cycle exactly when a process is beyond it and it is
\* a member of a detected cycle; with nothing beyond it, it is not reported.
C14_EnabledCycleReportedIffSpanning ==
    Validated =>
        \A b \in Processes : boundary[b] # NoTag =>
            (CycleReported(b) <=> (Beyond(b) # {} /\ IsCycleMember(b)))

\* Validation failed naming a boundary process on a cycle; a second boundary
\* process, beyond the first, is not named.
C14_Witness ==
    /\ pc = "invalid"
    /\ \E b \in Processes : \E c \in Beyond(b) :
          /\ CycleReported(b)
          /\ procEnabled[c]
          /\ boundary[c] # NoTag
          /\ ~CycleReported(c)

\* C15: for every enabled boundary process b with a process beyond it and
\* every aggregator with members on both sides, validation fails with a
\* message that names the aggregator and the boundary of b.
C15_SpanningNamesBoundary ==
    Validated =>
        \A b \in Processes, a \in Aggs :
            (boundary[b] # NoTag /\ Beyond(b) # {} /\ Spans(a, b)) =>
                /\ pc = "invalid"
                /\ \E i \in DOMAIN msgs :
                      /\ msgs[i].kind = "spans"
                      /\ msgs[i].agg = a
                      /\ msgs[i].tag = boundary[b]

\* The number of messages of validate that satisfy Test.
CountMsgs(Test(_)) == Cardinality({i \in DOMAIN msgs : Test(msgs[i])})

\* C16: validate makes every check and raises once, with one message per
\* violation: the run_after violation, every enabled boundary process on a
\* cycle with a process beyond it, every aggregator spanning such a boundary
\* (once or more per boundary), the attribute constraint; it raises exactly
\* when there is a message.
C16_AllViolationsReported ==
    Validated =>
        /\ (pc = "invalid") <=> (msgs # <<>>)
        /\ (pc = "invalid") <=> (err = "validation")
        /\ CountMsgs(LAMBDA m : m.kind = "run_after") =
              (IF \E e \in graph.edges :
                     procEnabled[e[1]] /\ run_after[e[1]] /\ ~run_after[e[2]]
               THEN 1 ELSE 0)
        /\ \A b \in Processes :
              (boundary[b] # NoTag /\ Beyond(b) # {} /\ IsCycleMember(b))
                  => CycleReported(b)
        /\ \A a \in Aggs :
              CountMsgs(LAMBDA m : m.kind = "spans" /\ m.agg = a) >=
                  Cardinality({b \in Processes :
                      boundary[b] # NoTag /\ Beyond(b) # {} /\ Spans(a, b)})
        /\ CountMsgs(LAMBDA m : m.kind = "SOR") =
              (IF steam_flooding /\ SOR = 0 THEN 1 ELSE 0)

\* Validation failed with a run_after message, a cycle message, a spanning
\* message and the attribute message together.
C16_Witness ==
    /\ pc = "invalid"
    /\ {msgs[i].kind : i \in DOMAIN msgs} = {"run_after", "cycle", "spans", "SOR"}

\* C17: a field that got through _after_init and validate without error has
\* no stream from an enabled run_after process to a process that is not
\* run_after.
C17_ValidRunAfterFeedsRunAfter ==
    pc \notin {"declared", "new", "built", "error", "invalid"} =>
        \A e \in graph.edges :
            (procEnabled[e[1]] /\ run_after[e[1]]) => run_after[e[2]]

\* A validated field in which an enabled run_after process has a stream to
\* another process, which is disabled.
C17_Witness ==
    /\ pc = "valid"
    /\ \E e \in graph.edges :
          /\ e[1] # e[2]
          /\ procEnabled[e[1]]
          /\ run_after[e[1]]
          /\ ~procEnabled[e[2]]

\* C18: every invocation of a run_after process comes after every invocation
\* of the processes of the independent and in-cycle sections, and is made
\* neither by the independent pass nor by the loop.
C18_RunAfterRunsLast ==
    Computed =>
        \A i \in DOMAIN trace : run_after[trace[i].proc] =>
            /\ trace[i].phase \notin {"independent", "cycle"}
            /\ \A j \in DOMAIN trace :
                  trace[j].proc \in sections.independent \cup sections.in_cycle => j < i

\* Field.run has called _impute, which has returned or raised.
Imputed == runs > 0 /\ pc \notin {"reset", "impute"}

\* _impute has returned and run_processes has not yet begun.
ImputeReturned == pc \in {"reset_iteration", "run_processes"}

\* The start set of the imputation: the enabled processes tagged
\* impute_start or, without any, the sources of the enabled streams with
\* exogenous data.
StartSet ==
    IF \E p \in Processes : impute_start[p]
    THEN {p \in Processes : impute_start[p]}
    ELSE {s[1] : s \in streamEnabled \cap has_exogenous_data}

\* An enabled stream with exogenous data has its impute flag off.
BadStartStream == \E s \in streamEnabled \cap has_exogenous_data : s \notin impute

\* What C19 says of a start set: with more than one process _impute fails
\* naming them all and imputes nothing; with none it imputes nothing and
\* raises nothing.
SingleRootRule ==
    /\ Cardinality(StartSet) > 1 =>
          /\ pc = "failed"
          /\ err = "start_procs"
          /\ named = StartSet
          /\ seeded = <<>>
    /\ StartSet = {} =>
          /\ ImputeReturned
          /\ err = "none"
          /\ seeded = <<>>

\* C19 as stated, whatever the impute flags of the start streams.
C19_SingleImputationRoot == Imputed => SingleRootRule

\* C19, for fields in which every enabled stream with exogenous data has its
\* impute flag on.
C19_SingleImputationRootChecked == (Imputed /\ ~BadStartStream) => SingleRootRule

\* _impute failed naming two start processes found from the streams with
\* exogenous data.
C19_Witness ==
    /\ pc = "failed"
    /\ err = "start_procs"
    /\ Cardinality(named) = 2
    /\ \A p \in Procs : ~impute_start[p]

\* C20: an enabled stream with exogenous data and its impute flag off makes
\* _impute fail before it imputes any process, with or without processes
\* tagged impute_start.
C20_StartStreamMustImpute ==
    (Imputed /\ BadStartStream) =>
        /\ pc = "failed"
        /\ err = "start_stream"
        /\ seeded = <<>>

\* _impute failed on a start stream in a field with exactly one impute_start
\* process.
C20_Witness ==
    /\ pc = "failed"
    /\ err = "start_stream"
    /\ Cardinality({p \in Processes : impute_start[p]}) = 1

\* The processes the imputation walk goes through from the processes of S:
\* enabled processes, reached over input streams flagged impute.
RECURSIVE ImputeWalked(_)
ImputeWalked(S) ==
    LET E == {p \in S : procEnabled[p]}
        T == E \cup UNION {ImputeUpstreamProcs(p) : p \in E}
    IN IF T = S THEN E ELSE ImputeWalked(T)

\* The walk of _impute starts, and one of the processes it goes through is
\* reached again from itself over streams flagged impute.
WalkMeetsLoop ==
    /\ ~BadStartStream
    /\ Cardinality(StartSet) = 1
    /\ \E q \in ImputeWalked(StartSet) :
          q \in ImputeWalked(ImputeUpstreamProcs(q))

\* C21: an imputation walk that meets a loop made only of streams flagged
\* impute ends the run with an error.
C21_ImputeLoopIsFatal == (Imputed /\ WalkMeetsLoop) => pc = "failed"

\* The graph has been built twice.
Rebuilt == pc = "rebuilt"

\* The lists one build of the declarations gives process p.
InputsBuiltOnce(p) == SelectSeq(StreamList(streamEnabled), LAMBDA s : s[2] = p)
OutputsBuiltOnce(p) == SelectSeq(StreamList(streamEnabled), LAMBDA s : s[1] = p)

\* C22: after a second build every process of the field, enabled or disabled,
\* has the input and output lists one build gives it, each stream once.
C22_RebuildIdempotent ==
    Rebuilt =>
        \A p \in Procs :
            /\ inputs[p] = InputsBuiltOnce(p)
            /\ outputs[p] = OutputsBuiltOnce(p)

\* _connect_processes has been called.
BuildAttempted == pc \in {"built", "rebuilt"} \/ (pc = "error" /\ err = "lookup")

\* The stream names a process, as source or destination, that the field does
\* not declare.
NamesUnknownProcess(s) == \E i \in {1, 2} : \A p \in Procs : s[i] # p

LookupFailed == pc = "error" /\ err = "lookup"

\* C23 as stated: the build fails with the lookup error whenever a declared
\* stream names a process that does not exist.
C23_UnknownNameFails ==
    (BuildAttempted /\ \E s \in DeclaredStreams : NamesUnknownProcess(s)) => LookupFailed

\* What the build does do: it fails with the lookup error whenever an
\* enabled stream names a process that does not exist, and the graph of the
\* field is not set.
EnabledUnknownNameFails ==
    (BuildAttempted /\ \E s \in streamEnabled : NamesUnknownProcess(s)) =>
        (LookupFailed /\ graph.nodes = {})

\* The run in progress is the second of the field, started after its first
\* run gave up at the ceiling.
Retried == runs = 2

\* Field.run has reset the per-run state of the first run.
RunStateReset ==
    /\ trace = <<>>
    /\ \A p \in Procs : invocations[p] = 0 /\ ~in_cycle[p]
    /\ err = "none"

\* C24: a run started after a run that gave up at the ceiling begins from
\* reset per-run state, and completes when a process signals convergence
\* within the ceiling.
C24_RetryCompletes ==
    Retried =>
        /\ pc = "run_processes" => RunStateReset
        /\ (\E i \in DOMAIN trace : ConvergedAt(i)) => pc \in {"dependent", "after", "done"}

\* C24: the second run computes the sections the first run computed.
C24_SameSections ==
    [][(Retried /\ pc = "run_processes") => sections' = sections]_vars

\* C25: in a run whose loop is left by the converged signal within the
\* ceiling, run_processes goes on to its end without an error.
C25_ConvergedRunCompletes ==
    \A i \in DOMAIN trace :
        (ConvergedAt(i) /\ trace[i].pass <= max_iter) => (pc # "failed" /\ err = "none")

\* The steps a run can still take: the phases of run_processes that lie
\* ahead and, inside the loop, the iterations left up to the one that finds
\* the ceiling exceeded.
PhasesAhead ==
    CASE pc = "reset" -> 9
      [] pc = "impute" -> 8
      [] pc = "reset_iteration" -> 7
      [] pc = "run_processes" -> 6
      [] pc = "independent" -> 5
      [] pc = "start_cycles" -> 4
      [] pc = "loop" -> 3
      [] pc = "dependent" -> 2
      [] pc = "after" -> 1
      [] OTHER -> 0

StepsAhead ==
    PhasesAhead * (MaxCeiling + 2) + (IF pc = "loop" THEN max_iter + 1 - iter_count ELSE 0)

\* C25: every step of a run leaves fewer steps to take: section computation,
\* each pass of the loop and each section pass bring the run nearer its end,
\* and the loop makes at most max_iter passes.
C25_RunProgresses ==
    [][(runs = 1 /\ PhasesAhead > 0) => (StepsAhead' < StepsAhead /\ StepsAhead' >= 0)]_vars

\* C26: every process of the in-cycle section lies on a detected cycle all of
\* whose members are enabled.
C26_InCycleOnEnabledCycle ==
    Computed =>
        \A p \in sections.in_cycle :
            \E c \in cycles : p \in Range(c) /\ \A q \in Range(c) : procEnabled[q]

\* The processes from which p is reached over one or more wired streams.
Ancestors(p) == UpstreamOf(Predecessors(p))

\* C27: every process of the cycle-dependent section is on no cycle and has
\* an ancestor that is on a cycle.
C27_DependentHasCycleAncestor ==
    Computed =>
        \A p \in sections.dependent :
            /\ ~IsCycleMember(p)
            /\ \E a \in Ancestors(p) : IsCycleMember(a)

\* C28: when the field has an enabled process on a cycle, no process of the
\* independent section is on a cycle or has an ancestor on a cycle: every
\* enabled process with a cycle member among its ancestors is in the
\* in-cycle, the cycle-dependent or the deferred section.
C28_IndependentHasNoCycleAncestor ==
    (Computed /\ \E q \in Processes : IsCycleMember(q)) =>
        /\ \A p \in sections.independent :
              ~IsCycleMember(p) /\ \A a \in Ancestors(p) : ~IsCycleMember(a)
        /\ \A p \in Processes :
              (\E a \in Ancestors(p) : IsCycleMember(a)) =>
                  p \in sections.in_cycle \cup sections.dependent \cup sections.run_afters

\* A process two streams below a cycle of two processes is cycle-dependent.
C28_Witness ==
    /\ Computed
    /\ \E c \in cycles : Len(c) = 2
    /\ \E p \in sections.dependent :
          /\ \A q \in Predecessors(p) : ~IsCycleMember(q)
          /\ \E a \in Ancestors(p) : IsCycleMember(a)

\* The processes reached from the processes of S over wired streams without
\* leaving the set W, S included.
RECURSIVE ReachedWithin(_, _)
ReachedWithin(S, W) ==
    LET T == S \cup (W \cap UNION {Successors(p) : p \in S})
    IN IF T = S THEN S ELSE ReachedWithin(T, W)

\* run_processes has ordered the cycle from its one cycle_start process.
OrderedFromStart == Len(start_procs) = 1

\* The in-cycle processes reached from the start process through in-cycle
\* processes.
FromStart == ReachedWithin({start_procs[1]}, sections.in_cycle)

\* o lists its processes in a depth-first order over successors: every
\* process but the first of a walk follows a process it is a successor of,
\* and whatever is listed between a process and one of its successors is
\* reached from that process through processes listed in between.
DepthFirst(o, n) ==
    /\ \A j \in 2..n : \E i \in 1..(j - 1) : o[j] \in Successors(o[i])
    /\ \A a, b, c \in 1..Len(o) :
          (a < b /\ b < c /\ o[c] \in Successors(o[a])) =>
              o[b] \in ReachedWithin({o[a]}, {o[k] : k \in a..b})

\* C29: with a cycle_start process, ordered_cycle lists every in-cycle
\* process once, begins with the cycle_start process, is in depth-first
\* successor order, and lists the in-cycle processes reached from the start
\* through in-cycle processes before all others.
C29_OrderedFromCycleStart ==
    OrderedFromStart =>
        /\ Len(ordered_cycle) = Cardinality(sections.in_cycle)
        /\ Range(ordered_cycle) = sections.in_cycle
        /\ ordered_cycle[1] = start_procs[1]
        /\ \A i \in DOMAIN ordered_cycle :
              ordered_cycle[i] \in FromStart <=> i <= Cardinality(FromStart)
        /\ DepthFirst(ordered_cycle, Cardinality(FromStart))

\* The start process is not the first in-cycle process in declaration order,
\* two processes are reached from it, and one in-cycle process is not.
C29_Witness ==
    /\ OrderedFromStart
    /\ \E p \in sections.in_cycle : p < start_procs[1]
    /\ Cardinality(FromStart) = 2
    /\ Len(ordered_cycle) = 3

\* The processes invoked by pass k of the loop, in order.
RECURSIVE ProcsOf(_)
ProcsOf(t) == IF t = <<>> THEN <<>> ELSE <<Head(t).proc>> \o ProcsOf(Tail(t))

PassProcs(k) == ProcsOf(SelectSeq(trace, LAMBDA e : e.phase = "cycle" /\ e.pass = k))

\* The passes of the loop that ran: those counted up to the ceiling.
PassesRun == 1..Min({iter_count, max_iter})

\* Pass k is the one left by the converged signal.
Interrupted(k) == \E i \in DOMAIN trace : ConvergedAt(i) /\ trace[i].pass = k

\* C30: every pass of the loop invokes in-cycle processes in the order of the
\* first pass, each at most once, and every pass but the one left by the
\* converged signal invokes every in-cycle process exactly once.
C30_PassesKeepOrder ==
    \A k \in PassesRun :
        LET first == PassProcs(1)
            this == PassProcs(k)
        IN /\ \A i, j \in DOMAIN this : i # j => this[i] # this[j]
           /\ Range(this) \subseteq sections.in_cycle
           /\ Len(this) <= Len(first) => this = SubSeq(first, 1, Len(this))
           /\ Len(first) <= Len(this) => first = SubSeq(this, 1, Len(first))
           /\ ~Interrupted(k) =>
                 (Range(this) = sections.in_cycle /\ this = ordered_cycle)

\* A full pass over three processes and a second pass left after its second
\* process.
C30_Witness ==
    /\ Len(ordered_cycle) = 3
    /\ iter_count = 2
    /\ Interrupted(2)
    /\ Len(PassProcs(2)) = 2
    /\ Len(PassProcs(1)) = 3

\* The sources of the declared streams into p that are flagged impute.
FlaggedSources(p) == {s[1] : s \in {t \in DeclaredStreams \cap impute : t[2] = p}}

\* The enabled processes reached from the processes of S by going upstream
\* over streams flagged impute, through enabled processes only.
RECURSIVE ReachedUpstream(_)
ReachedUpstream(S) ==
    LET E == {p \in S : procEnabled[p]}
        T == E \cup {q \in UNION {FlaggedSources(p) : p \in E} : procEnabled[q]}
    IN IF T = E THEN E ELSE ReachedUpstream(T)

\* The imputation walk has run from the one start process.
Walked == Imputed /\ ~BadStartStream /\ Cardinality(StartSet) = 1

SeededAt(p) == CHOOSE i \in DOMAIN seeded : seeded[i] = p

\* The walk imputes exactly the enabled processes reached from the start
\* process, each once.
SeedsReached ==
    /\ Range(seeded) = ReachedUpstream(StartSet)
    /\ \A i, j \in DOMAIN seeded : i # j => seeded[i] # seeded[j]
    /\ \A p \in Range(seeded) : procEnabled[p]

\* C31 as stated: the walk imputes exactly the enabled processes reached from
\* the start process, each once, and a process is imputed before every one
\* of its upstream neighbours over streams flagged impute.
C31_SeededBeforeUpstream ==
    Walked =>
        /\ SeedsReached
        /\ \A p \in Range(seeded) : \A q \in FlaggedSources(p) \cap Range(seeded) :
              SeededAt(p) < SeededAt(q)

\* C31, with the order the walk keeps: the walk imputes exactly the enabled
\* processes reached from the start process, each once; the start process is
\* imputed first and every other process is imputed after a process it is an
\* upstream neighbour of over a stream flagged impute.
C31_SeededAfterDownstream ==
    Walked =>
        /\ SeedsReached
        /\ seeded # <<>> => seeded[1] \in StartSet
        /\ \A j \in 2..Len(seeded) :
              \E i \in 1..(j - 1) : seeded[j] \in FlaggedSources(seeded[i])

\* The walk imputed three processes, the third after one of its own upstream
\* neighbours, which the walk had reached before from the start process: two
\* paths from the start process meet again, and no loop is involved.
C31_Witness ==
    /\ Walked
    /\ Len(seeded) = 3
    /\ LoopFree(impute)
    /\ seeded[2] \in FlaggedSources(seeded[1])
    /\ seeded[3] \in FlaggedSources(seeded[1])
    /\ seeded[2] \in FlaggedSources(seeded[3])

\* _connect_processes returned a graph.
Built == pc \in {"built", "rebuilt"}

\* C32: the graph of a built field has every declared process, enabled or
\* disabled, as a node and every declared stream, enabled or disabled, as an
\* edge from its source to its destination.
C32_GraphHoldsAllDeclared ==
    Built =>
        /\ graph.nodes = Procs
        /\ graph.edges = DeclaredStreams

\* C33: in a field that passed build and validation the topological sort of
\* run_procs_in_order never fails, in the independent, the cycle-dependent
\* or the deferred pass.
C33_TopologicalSortNeverFails == ~(pc = "failed" /\ err = "unfeasible")

\* C34: a run resets the streams and the per-run state of the processes,
\* then imputes, then resets the iteration state, then schedules: _impute
\* starts with the streams as reset() left them, no visited marker set and
\* no process run; reset_iteration follows an _impute that returned without
\* error; run_processes begins with no invocation made and no in_cycle flag
\* set, whatever an earlier run left; and no process is run unless _impute
\* has returned without error.
C34_RunStepsInOrder ==
    /\ pc = "impute" =>
          /\ \A s \in streamEnabled : procEnabled[s[1]] /\ procEnabled[s[2]]
          /\ seeded = <<>>
          /\ trace = <<>>
    /\ pc = "reset_iteration" =>
          /\ err = "none"
          /\ trace = <<>>
          /\ seeded # <<>> => StartSet = {seeded[1]}
    /\ pc = "run_processes" =>
          /\ trace = <<>>
          /\ \A p \in Procs : invocations[p] = 0 /\ ~in_cycle[p]
    /\ trace # <<>> => (Imputed /\ err \notin {"start_stream", "start_procs"})
    /\ (Imputed /\ seeded # <<>>) => StartSet = {seeded[1]}
    /\ (Imputed /\ err = "start_stream") => BadStartStream

\* The second run of a field is about to be scheduled: its first run went
\* through the loop, a stream with exogenous data was disabled by the reset,
\* and the imputation walked from a start process.
C34_Witness ==
    /\ runs = 2
    /\ pc = "run_processes"
    /\ \E i \in DOMAIN prev_trace : prev_trace[i].phase = "cycle"
    /\ seeded # <<>>
    /\ \E s \in has_exogenous_data : s \notin streamEnabled

\* C35: no disabled process is imputed or run, in any pass of a run, whether
\* it lies on a detected cycle or at the end of a wired stream.
C35_DisabledNeverInvoked ==
    /\ \A i \in DOMAIN seeded : procEnabled[seeded[i]]
    /\ \A i \in DOMAIN trace : procEnabled[trace[i].proc]
    /\ \A p \in Procs : ~procEnabled[p] => invocations[p] = 0
    /\ Computed => \A i \in 1..4 : \A p \in SectionList[i] : procEnabled[p]

\* A run completed in a field whose disabled process lies on a detected cycle
\* with a process that the loop ran, and feeds the process the imputation
\* started from.
C35_Witness ==
    /\ pc = "done"
    /\ seeded # <<>>
    /\ \E d \in Procs :
          /\ ~procEnabled[d]
          /\ IsCycleMember(d)
          /\ d \in Predecessors(seeded[1])
          /\ \E i \in DOMAIN trace : trace[i].phase = "cycle"

\* The streams that were enabled when the field was built: the edges of its
\* graph.
EnabledWhenBuilt == graph.edges

\* C36: after the reset of a run the enabled streams are the streams that
\* were enabled before and have an enabled source and an enabled destination;
\* a stream that was disabled stays disabled.
C36_ResetKeepsStreamsOfEnabledEnds ==
    Imputed =>
        /\ \A s \in streamEnabled : procEnabled[s[1]] /\ procEnabled[s[2]]
        /\ streamEnabled = {s \in EnabledWhenBuilt : procEnabled[s[1]] /\ procEnabled[s[2]]}

\* The reset disabled a stream into a disabled process and left disabled a
\* stream between enabled processes that was declared disabled.
C36_Witness ==
    /\ Imputed
    /\ \E s \in EnabledWhenBuilt : procEnabled[s[1]] /\ ~procEnabled[s[2]]
    /\ \E s \in DeclaredStreams \ EnabledWhenBuilt :
          /\ s[1] \in Processes
          /\ s[2] \in Processes
          /\ s \notin streamEnabled

\* ------------------------------------------------------------------ C37
RunAttempted ==
    pc \in {"skipped", "failed", "reset", "impute", "reset_iteration", "run_processes"}

NothingRun ==
    /\ runs = 0
    /\ streamEnabled = DeclaredStreams
    /\ seeded = <<>>
    /\ named = {}
    /\ trace = <<>>
    /\ \A p \in Procs : invocations[p] = 0 /\ ~in_cycle[p]

BoundaryUndeclared == \A p \in Procs : boundary[p] # analysis_boundary

\* C37: a run of an enabled field whose analysis names a boundary that no
\* process declares fails on the lookup, before any stream is reset and before
\* any process is seeded or run; a run of a disabled field returns with the
\* state as it was and no process invoked.
C37_RunFailsOrSkipsBeforeReset ==
    /\ (RunAttempted /\ fieldEnabled /\ BoundaryUndeclared) =>
           (pc = "failed" /\ err = "boundary" /\ NothingRun)
    /\ (RunAttempted /\ ~fieldEnabled) =>
           (pc = "skipped" /\ err = "none" /\ NothingRun)

\* A run that failed on the lookup in a field where another boundary is
\* declared and a stream ends at a disabled process, which reset() would have
\* disabled.
C37_Witness ==
    /\ pc = "failed"
    /\ err = "boundary"
    /\ fieldEnabled
    /\ BoundaryUndeclared
    /\ \E p \in Procs : boundary[p] # NoTag /\ procEnabled[p]
    /\ \E s \in DeclaredStreams : ~procEnabled[s[1]] \/ ~procEnabled[s[2]]

\* ------------------------------------------------------------------ C38
\* The groups of a choice, the group its attribute selects, and the choices
\* resolve_process_choices reaches: those of the field and those nested in a
\* selected group of a choice it reaches.
GroupsOf(choice) == {choice.groups_dict[i] : i \in DOMAIN choice.groups_dict}

SelectedGroups(choice) == {g \in GroupsOf(choice) : g.name = Lower(Attr(choice.name))}

FieldChoices == Range(process_choice_dict)

NestedChoices ==
    UNION {Range(g.process_choice_dict) : g \in UNION {SelectedGroups(c) : c \in FieldChoices}}

ReachedChoices == FieldChoices \cup NestedChoices

ProcsNamed(groups) == UNION {g.procs : g \in groups}
StreamsNamed(groups) == UNION {g.streams : g \in groups}

AllGroups(choices) == UNION {GroupsOf(c) : c \in choices}
AllSelected(choices) == UNION {SelectedGroups(c) : c \in choices}

Resolving == pc = "new" /\ pc' = "resolved"

\* The statement taken choice by choice, for the choices of the field.
SelectedPerChoice ==
    \A c \in FieldChoices :
        /\ \A p \in ProcsNamed(SelectedGroups(c)) : procEnabled'[p]
        /\ StreamsNamed(SelectedGroups(c)) \subseteq streamEnabled'
        /\ \A p \in ProcsNamed(GroupsOf(c)) \ ProcsNamed(SelectedGroups(c)) : ~procEnabled'[p]
        /\ (StreamsNamed(GroupsOf(c)) \ StreamsNamed(SelectedGroups(c))) \cap streamEnabled' = {}

Unnamed ==
    /\ \A p \in Procs \ ProcsNamed(AllGroups(ReachedChoices)) : procEnabled'[p] = procEnabled[p]
    /\ \A s \in DeclaredStreams \ StreamsNamed(AllGroups(ReachedChoices)) :
           s \in streamEnabled' <=> s \in streamEnabled

C38_SelectedPerChoice == [][Resolving => (SelectedPerChoice /\ Unnamed)]_vars

\* C38: after resolve_process_choices every process and stream of the selected
\* group of a choice of the field is enabled; every process and stream named by
\* a group of a choice the resolution reaches, and by no selected group of any
\* such choice, is disabled; the processes and streams named by no group of a
\* choice it reaches keep their enabled flag.
C38_SelectedOverAllChoices ==
    [][Resolving =>
        /\ \A p \in ProcsNamed(AllSelected(FieldChoices)) : procEnabled'[p]
        /\ StreamsNamed(AllSelected(FieldChoices)) \subseteq streamEnabled'
        /\ \A p \in ProcsNamed(AllGroups(ReachedChoices)) \
                        ProcsNamed(AllSelected(ReachedChoices)) : ~procEnabled'[p]
        /\ (StreamsNamed(AllGroups(ReachedChoices)) \
                StreamsNamed(AllSelected(ReachedChoices))) \cap streamEnabled' = {}
        /\ Unnamed]_vars

\* A resolved field where a process is enabled by the selected group of one
\* choice although a non-selected group of the other names it too, the stream,
\* named by a non-selected group only, is disabled, and a disabled process
\* that no group names is disabled still.
C38_Witness ==
    /\ pc = "resolved"
    /\ \E c \in FieldChoices : \E d \in FieldChoices \ {c} :
           \E p \in ProcsNamed(SelectedGroups(c)) :
               /\ p \in ProcsNamed(GroupsOf(d)) \ ProcsNamed(SelectedGroups(d))
               /\ procEnabled[p]
    /\ \E s \in StreamsNamed(AllGroups(ReachedChoices)) \
                      StreamsNamed(AllSelected(ReachedChoices)) : s \notin streamEnabled
    /\ \E p \in Procs \ ProcsNamed(AllGroups(ReachedChoices)) : ~procEnabled[p]

\* ------------------------------------------------------------------ C39
CompleteAddress(text) == \E i \in Starters : Strip(text) = Address(i)

\* Two 'ray start' commands have opened the same temporary file: the second
\* began to write before the first had renamed its file into place.
StartsShareFile ==
    \E i, j \in Starters :
        i # j /\ startCmd[i].f # NoFile /\ startCmd[i].f = startCmd[j].f

\* C39: while every 'ray start' has worked on a temporary file of its own,
\* whatever a reader of the address file sees, and whatever 'ray stop' reads
\* from it, is a complete address, unless the file does not exist: never an
\* empty or partly written one, whatever the commands do between the
\* reader's open and its read; and the file carries the '.stopped' name only
\* after the shutdown.
C39_ReaderSeesCompleteAddress ==
    /\ ~StartsShareFile =>
          /\ observed.exists => CompleteAddress(observed.text)
          /\ stop.pc \in {"read", "shutdown", "done"} =>
                 \E i \in Starters : stop.address = Address(i)
    /\ files["stopped"] # NoFile => stop.pc = "done"

\* A reader opened the address file a 'ray start' had put in place and read
\* a complete address from it after 'ray stop' had renamed the file away,
\* while another 'ray start' has its own temporary file open.
C39_Witness ==
    /\ ~StartsShareFile
    /\ observed.pc = "closed"
    /\ observed.exists
    /\ observed.renamed
    /\ CompleteAddress(observed.text)
    /\ stop.pc = "done"
    /\ files["stopped"] = observed.f
    /\ \E i \in Starters : startCmd[i].pc = "opened"

\* While no two 'ray start' commands have opened the same temporary file, a
\* step leaves the address file absent or complete.
AddressFileComplete ==
    files["addr_file"] # NoFile => CompleteAddress(contents[files["addr_file"]])

UnsharedFileKeepsAddressComplete ==
    [][(~StartsShareFile' /\ AddressFileComplete) => AddressFileComplete']_vars

\* The same of the reader with 'ray start' commands that share the temporary
\* file: there the reader can see an existing address file that is empty or
\* holds the address of no cluster.
OverlappingStartsKeepAddressComplete ==
    observed.exists => CompleteAddress(observed.text)

\* The address file holds the whole address of one cluster followed by the
\* end of the address of another.
MixedAddresses ==
    /\ observed.exists
    /\ observed.text # <<>>
    /\ ~CompleteAddress(observed.text)

====
